---- MODULE Spec2Model ----
(***************************************************************************)
(* A model of the chabadlibrary.org scraper: the page analyser, the        *)
(* persistence wrappers, the linear surfer, the recursive driller and the  *)
(* orchestrator (runScraper) of the "Golden Master" script, and the        *)
(* earlier "Loop Fixed" script (crawlRecursive).                           *)
(*                                                                         *)
(* Text is kept as a sequence of runs [c, n]: n characters of class c.     *)
(*   "heb"  letters alef..tav (U+05D0..U+05EA)                             *)
(*   "niq"  the rest of the Hebrew block U+0590..U+05FF (points, marks)    *)
(*   "sp"   white space other than a line break                            *)
(*   "nl"   line breaks                                                    *)
(*   "arr"  arrow markers << or >> (n markers, two characters each)        *)
(*   "dash" the character -                                                *)
(*   "dig"  the footnote characters 0-9 * [ ] ( )                          *)
(*   "oth"  anything else                                                  *)
(* Adjacent runs of a text have different classes.                         *)
(***************************************************************************)
EXTENDS Integers, Sequences, FiniteSets, TLC

Null == "null"

BASE_URL == "root"

R(c, n) == [c |-> c, n |-> n]

\* ---------------------------------------------------------------- text

\* String.length of one run.
RunLen(r) == IF r.c = "arr" THEN 2 * r.n ELSE r.n

RECURSIVE TextLength(_)
TextLength(txt) ==
    IF txt = <<>> THEN 0 ELSE RunLen(Head(txt)) + TextLength(Tail(txt))

\* (txt.match(/[\u0590-\u05FF]/g) || []).length
RECURSIVE HebrewCount(_)
HebrewCount(txt) ==
    IF txt = <<>> THEN 0
    ELSE (IF Head(txt).c \in {"heb", "niq"} THEN Head(txt).n ELSE 0)
         + HebrewCount(Tail(txt))

IsSpace(r) == r.c \in {"sp", "nl"}

\* Drops the leading runs of white space (\s* and \s+ of the pattern, trim()).
RECURSIVE SkipSpace(_)
SkipSpace(txt) ==
    IF txt # <<>> /\ IsSpace(Head(txt)) THEN SkipSpace(Tail(txt)) ELSE txt

\* The text that follows the first arrow marker, or Null when there is none.
RECURSIVE AfterFirstArrow(_)
AfterFirstArrow(txt) ==
    IF txt = <<>> THEN Null
    ELSE IF Head(txt).c = "arr"
         THEN (IF Head(txt).n > 1
               THEN <<R("arr", Head(txt).n - 1)>> \o Tail(txt)
               ELSE Tail(txt))
         ELSE AfterFirstArrow(Tail(txt))

\* The optional group ([alef-tav]{1,4}(-[alef-tav])?)? taken greedily.
AfterPageLabel(txt) ==
    IF txt = <<>> \/ Head(txt).c # "heb" THEN txt
    ELSE IF Head(txt).n > 4
         THEN <<R("heb", Head(txt).n - 4)>> \o Tail(txt)
         ELSE LET rest == Tail(txt)
              IN IF /\ Len(rest) >= 2
                    /\ rest[1] = R("dash", 1)
                    /\ rest[2].c = "heb"
                 THEN (IF rest[2].n > 1
                       THEN <<R("heb", rest[2].n - 1)>> \o Tail(Tail(rest))
                       ELSE Tail(Tail(rest)))
                 ELSE rest

\* rawText.replace(/^.*?(?:<<|>>)\s*([alef-tav]{1,4}(-[alef-tav])?)?(\s+)?/s, '')
StripArtifact(rawText) ==
    LET after == AfterFirstArrow(rawText)
    IN IF after = Null THEN rawText
       ELSE SkipSpace(AfterPageLabel(SkipSpace(after)))

\* rawText.split(/\n/): a run of n line breaks ends a line and adds n - 1 empty ones.
RECURSIVE SplitLines(_, _)
SplitLines(txt, cur) ==
    IF txt = <<>> THEN <<cur>>
    ELSE IF Head(txt).c = "nl"
         THEN <<cur>> \o [k \in 1..(Head(txt).n - 1) |-> <<>>] \o SplitLines(Tail(txt), <<>>)
         ELSE SplitLines(Tail(txt), Append(cur, Head(txt)))

RECURSIVE DropTrailingSpace(_)
DropTrailingSpace(txt) ==
    IF txt # <<>> /\ IsSpace(txt[Len(txt)])
    THEN DropTrailingSpace(SubSeq(txt, 1, Len(txt) - 1))
    ELSE txt

\* s.trim()
Trim(txt) == DropTrailingSpace(SkipSpace(txt))

RECURSIVE SelectNonEmpty(_)
SelectNonEmpty(ls) ==
    IF ls = <<>> THEN <<>>
    ELSE (IF TextLength(Head(ls)) > 0 THEN <<Head(ls)>> ELSE <<>>)
         \o SelectNonEmpty(Tail(ls))

\* rawText.split(/\n/).map(s => s.trim()).filter(s => s.length > 0)
\* (the array of lines and the array of trimmed lines are each built once)
CleanLines(rawText) ==
    CHOOSE out \in { SelectNonEmpty(trimmed) :
                       trimmed \in { [k \in DOMAIN ls |-> Trim(ls[k])] :
                                      ls \in {SplitLines(rawText, <<>>)} } } : TRUE

\* /[\u0590-\u05FF]/.test(seg)
HasHebrew(seg) == \E k \in 1..Len(seg) : seg[k].c \in {"heb", "niq"}

\* /^[0-9*\[\]()]+$/.test(seg)
IsFootnoteMarker(seg) == seg # <<>> /\ \A k \in 1..Len(seg) : seg[k].c = "dig"

\* The visible text of a hyperlink: its string s, its length and the phrases
\* it contains (t.includes(phrase)).
Includes(t, phrase) == phrase \in t.has

\* ---------------------------------------------------------------- analyzePage

\* A candidate element of the cleaned clone: its innerText and the number of
\* <a> elements under it.
\* A page: its document.title, the candidate elements of the cleaned clone in
\* document order, and the <a> elements of the original document in document
\* order, each [text |-> a.innerText.trim(), href |-> a.href].

\* A test that looks at the ratio alone.
QualifiesByRatioOnly(el) ==
    LET hebrewCount == HebrewCount(el.txt)
        linkCount == el.links
    IN /\ ~(TextLength(el.txt) < 50)
       /\ IF linkCount > 0 THEN hebrewCount > 50 * linkCount ELSE hebrewCount > 50

\* A test that looks at the Hebrew count alone.
QualifiesByCountOnly(el) == HebrewCount(el.txt) > 100

\* hebrewCount > 100 && ratio > 50, with
\* ratio = linkCount > 0 ? hebrewCount / linkCount : hebrewCount
Qualifies(el) ==
    LET hebrewCount == HebrewCount(el.txt)
        linkCount == el.links
    IN /\ ~(TextLength(el.txt) < 50)
       /\ hebrewCount > 100
       /\ IF linkCount > 0 THEN hebrewCount > 50 * linkCount ELSE hebrewCount > 50

\* A forEach that replaces the best element on an equal count.
RECURSIVE BestFromLastWins(_, _, _, _)
BestFromLastWins(cands, i, best, maxHebrewCount) ==
    IF i > Len(cands) THEN best
    ELSE IF Qualifies(cands[i]) /\ HebrewCount(cands[i].txt) >= maxHebrewCount
         THEN BestFromLastWins(cands, i + 1, i, HebrewCount(cands[i].txt))
         ELSE BestFromLastWins(cands, i + 1, best, maxHebrewCount)

\* candidates.forEach: the index of bestTextEl (0 for null) after the elements
\* i.. have been seen, starting from best and maxHebrewCount.
RECURSIVE BestFrom(_, _, _, _)
BestFrom(cands, i, best, maxHebrewCount) ==
    IF i > Len(cands) THEN best
    ELSE IF Qualifies(cands[i]) /\ HebrewCount(cands[i].txt) > maxHebrewCount
         THEN BestFrom(cands, i + 1, i, HebrewCount(cands[i].txt))
         ELSE BestFrom(cands, i + 1, best, maxHebrewCount)

BestTextEl(page) == BestFrom(page.cands, 1, 0, 0)

\* if (!bestTextEl) cleanedSegments stays []; else the cleaned lines of its text
CleanedSegments(page) ==
    CHOOSE out \in { IF best = 0 THEN <<>>
                      ELSE CHOOSE ls \in { CleanLines(rawText) :
                               rawText \in {StripArtifact(page.cands[best].txt)} } : TRUE :
                       best \in {BestTextEl(page)} } : TRUE

\* A test for the next marker alone.
IsNextLinkAnyArrow(a) == Includes(a.text, ">>") \/ Includes(a.text, "haba")

IsNextLink(a) ==
    LET matchesNext == Includes(a.text, ">>") \/ Includes(a.text, "haba")
        matchesPrev == Includes(a.text, "<<") \/ Includes(a.text, "hakodem")
    IN matchesNext /\ ~matchesPrev

\* A classifier that finds no next-link.
FindNextNever(anchors) == Null

\* allAnchors.find(...) and nextLinkEl ? nextLinkEl.href : null
RECURSIVE FindNext(_)
FindNext(anchors) ==
    IF anchors = <<>> THEN Null
    ELSE IF IsNextLink(Head(anchors)) THEN Head(anchors).href
         ELSE FindNext(Tail(anchors))

\* href.includes('/books/')
InBooks(href) == href # "ext"

InList(list, x) == \E k \in 1..Len(list) : list[k] = x

\* A filter that forgets the tests of the link text.
IsSubLinkAnyText(l, currentUrl, excludeList) ==
    /\ InBooks(l.href)
    /\ ~InList(excludeList, l.href)
    /\ l.href # currentUrl

IsSubLink(l, currentUrl, excludeList) ==
    /\ InBooks(l.href)
    /\ ~InList(excludeList, l.href)
    /\ l.href # currentUrl
    /\ l.text.len > 0
    /\ ~Includes(l.text, "daf habayit")
    /\ ~Includes(l.text, "hakodem")
    /\ ~Includes(l.text, "haba")
    /\ ~Includes(l.text, "<<")
    /\ ~Includes(l.text, ">>")

RECURSIVE SubLinks(_, _, _)
SubLinks(anchors, currentUrl, excludeList) ==
    IF anchors = <<>> THEN <<>>
    ELSE (IF IsSubLink(Head(anchors), currentUrl, excludeList)
          THEN <<Head(anchors)>> ELSE <<>>)
         \o SubLinks(Tail(anchors), currentUrl, excludeList)

\* A classifier without the decision: every page is CONTENT.
analyzeContentAlways(page, currentUrl, excludeList) ==
    [type |-> "CONTENT", segments |-> CleanedSegments(page),
     nextUrl |-> FindNext(page.anchors), pageTitle |-> page.title]

\* A classifier that looks at the sub-links before the segments.
analyzeIndexFirst(page, currentUrl, excludeList) ==
    LET cleanedSegments == CleanedSegments(page)
        nextUrl == FindNext(page.anchors)
        subLinks == SubLinks(page.anchors, currentUrl, excludeList)
    IN IF Len(subLinks) > 0
       THEN [type |-> "INDEX", links |-> subLinks]
       ELSE IF Len(cleanedSegments) > 0
            THEN [type |-> "CONTENT", segments |-> cleanedSegments,
                  nextUrl |-> nextUrl, pageTitle |-> page.title]
            ELSE [type |-> "EMPTY"]

analyzePage(page, currentUrl, excludeList) ==
    LET cleanedSegments == CleanedSegments(page)
        nextUrl == FindNext(page.anchors)
        subLinks == SubLinks(page.anchors, currentUrl, excludeList)
    IN IF Len(cleanedSegments) > 0
       THEN [type |-> "CONTENT", segments |-> cleanedSegments,
             nextUrl |-> nextUrl, pageTitle |-> page.title]
       ELSE IF Len(subLinks) > 0
            THEN [type |-> "INDEX", links |-> subLinks]
            ELSE [type |-> "EMPTY"]

\* ---------------------------------------------------------------- the store

\* The four tables, each a sequence of rows in insertion order; a row's id is
\* its position.
EmptyDb == [authors |-> <<>>, books |-> <<>>, chapters |-> <<>>, segments |-> <<>>]

\* .select('id').eq(col, val).single(): the id when exactly one row matches,
\* else no data (0).
SingleId(rows, col, val) ==
    LET hits == {k \in 1..Len(rows) : rows[k][col] = val}
    IN IF Cardinality(hits) = 1 THEN CHOOSE k \in hits : TRUE ELSE 0

\* Wrappers that insert without looking up first.
AlwaysInsertAuthor(db, name, url) ==
    [db |-> [db EXCEPT !.authors = Append(@, [name |-> name, original_link |-> url])],
     id |-> Len(db.authors) + 1]

AlwaysInsertBook(db, authorId, title, url) ==
    [db |-> [db EXCEPT !.books =
                Append(@, [author_id |-> authorId, title |-> title,
                           category |-> "General", original_link |-> url])],
     id |-> Len(db.books) + 1]

AlwaysInsertChapter(db, bookId, fullPathTitle, url, sequence) ==
    [db |-> [db EXCEPT !.chapters =
                Append(@, [book_id |-> bookId, title |-> fullPathTitle,
                           sequence_number |-> sequence, original_link |-> url])],
     id |-> Len(db.chapters) + 1]

\* A wrapper whose insert gives no id back.
InsertBookIdLost(db, authorId, title, url) ==
    LET data == SingleId(db.books, "original_link", url)
    IN IF data # 0 THEN [db |-> db, id |-> data]
       ELSE [db |-> [db EXCEPT !.books =
                        Append(@, [author_id |-> authorId, title |-> title,
                                   category |-> "General", original_link |-> url])],
             id |-> 0]

\* A wrapper that overwrites the row it finds.
UpsertChapter(db, bookId, fullPathTitle, url, sequence) ==
    LET data == SingleId(db.chapters, "original_link", url)
        row == [book_id |-> bookId, title |-> fullPathTitle,
                sequence_number |-> sequence, original_link |-> url]
    IN IF data # 0 THEN [db |-> [db EXCEPT !.chapters[data] = row], id |-> data]
       ELSE [db |-> [db EXCEPT !.chapters = Append(@, row)],
             id |-> Len(db.chapters) + 1]

\* Each wrapper gives [db |-> the store afterwards, id |-> the id returned].
getOrInsertAuthor(db, name, url) ==
    LET data == SingleId(db.authors, "name", name)
    IN IF data # 0 THEN [db |-> db, id |-> data]
       ELSE [db |-> [db EXCEPT !.authors =
                        Append(@, [name |-> name, original_link |-> url])],
             id |-> Len(db.authors) + 1]

getOrInsertBook(db, authorId, title, url) ==
    LET data == SingleId(db.books, "original_link", url)
    IN IF data # 0 THEN [db |-> db, id |-> data]
       ELSE [db |-> [db EXCEPT !.books =
                        Append(@, [author_id |-> authorId, title |-> title,
                                   category |-> "General", original_link |-> url])],
             id |-> Len(db.books) + 1]

getOrInsertChapter(db, bookId, fullPathTitle, url, sequence) ==
    LET data == SingleId(db.chapters, "original_link", url)
    IN IF data # 0 THEN [db |-> db, id |-> data]
       ELSE [db |-> [db EXCEPT !.chapters =
                        Append(@, [book_id |-> bookId, title |-> fullPathTitle,
                                   sequence_number |-> sequence,
                                   original_link |-> url])],
             id |-> Len(db.chapters) + 1]

\* A for loop that numbers the rows by the place of the segment in segments.
RECURSIVE RowsNumberedByPlace(_, _, _, _)
RowsNumberedByPlace(chapterId, segments, i, seq) ==
    IF i > Len(segments) THEN <<>>
    ELSE LET seg == segments[i]
         IN IF TextLength(seg) < 2 \/ (~HasHebrew(seg) /\ ~IsFootnoteMarker(seg))
            THEN RowsNumberedByPlace(chapterId, segments, i + 1, seq + 1)
            ELSE <<[chapter_id |-> chapterId, sequence_number |-> seq,
                    hebrew_text |-> seg]>>
                 \o RowsNumberedByPlace(chapterId, segments, i + 1, seq + 1)

\* An insertSegments that admits every segment.
RECURSIVE RowsUnfiltered(_, _, _, _)
RowsUnfiltered(chapterId, segments, i, seq) ==
    IF i > Len(segments) THEN <<>>
    ELSE <<[chapter_id |-> chapterId, sequence_number |-> seq,
            hebrew_text |-> segments[i]]>>
         \o RowsUnfiltered(chapterId, segments, i + 1, seq + 1)

\* The for loop of insertSegments: the rows built from segments i.., the next
\* row taking sequence number seq.
RECURSIVE RowsToInsert(_, _, _, _)
RowsToInsert(chapterId, segments, i, seq) ==
    IF i > Len(segments) THEN <<>>
    ELSE LET seg == segments[i]
         IN IF TextLength(seg) < 2
            THEN RowsToInsert(chapterId, segments, i + 1, seq)
            ELSE IF ~HasHebrew(seg) /\ ~IsFootnoteMarker(seg)
                 THEN RowsToInsert(chapterId, segments, i + 1, seq)
                 ELSE <<[chapter_id |-> chapterId, sequence_number |-> seq,
                         hebrew_text |-> seg]>>
                      \o RowsToInsert(chapterId, segments, i + 1, seq + 1)

\* [db |-> the store afterwards, count |-> rowsToInsert.length]
insertSegments(db, chapterId, segments) ==
    LET rowsToInsert == RowsToInsert(chapterId, segments, 1, 1)
    IN [db |-> [db EXCEPT !.segments = @ \o rowsToInsert],
        count |-> Len(rowsToInsert)]

\* ---------------------------------------------------------------- the source site

PageUrls == {"p1", "p2", "p3"}

AuthorUrls == {"a1", "a2"}

Urls == {BASE_URL} \cup AuthorUrls \cup PageUrls

\* The texts of hyperlinks.
Plain(s) == [s |-> s, len |-> 5, has |-> {}]
NextText == [s |-> ">>", len |-> 2, has |-> {">>"}]
HomeText == [s |-> "daf habayit", len |-> 7, has |-> {"daf habayit", "bayit"}]
PrevText == [s |-> "<<", len |-> 2, has |-> {"<<"}]
BothText == [s |-> "<< >>", len |-> 5, has |-> {"<<", ">>"}]
HabaText == [s |-> "haba", len |-> 3, has |-> {"haba"}]
HakodemNextText == [s |-> "hakodem >>", len |-> 8, has |-> {"hakodem", ">>"}]
EmptyText == [s |-> "", len |-> 0, has |-> {}]

Link(text, href) == [text |-> text, href |-> href]

\* Candidate elements: a block of prose (a page label after an arrow, then two
\* lines, a footnote marker and a stray punctuation line), and a link list.
ProseBlock ==
    [txt |-> <<R("arr", 1), R("heb", 2), R("nl", 1), R("heb", 90), R("sp", 1),
               R("heb", 60), R("nl", 2), R("dig", 2), R("nl", 1), R("oth", 3)>>,
     links |-> 1]
LinkBlock ==
    [txt |-> <<R("heb", 120), R("nl", 1), R("heb", 40)>>, links |-> 8]

\* A page is drawn by its shape: whether it carries prose, the target of its
\* next-link (Null for none), the targets of its plain links in document
\* order, whether it links home, and whether its title is a front-matter
\* title.
\* pre are hyperlinks that come before all of these in the document.
\* blocks are the candidate elements of the pages that carry prose; a page
\* whose shape has alias set shows its k-th plain link under the k-th of
\* AliasNames instead of the name of its target.
DefaultBlocks == <<LinkBlock, ProseBlock>>

AliasNames == <<"n1", "n2", "n3", "n4", "n5">>

PageOf(shape, blocks) ==
    [title |-> IF shape.front THEN "introduction" ELSE "perek",
     cands |-> IF shape.content THEN blocks ELSE <<LinkBlock>>,
     anchors |->
        shape.pre
        \o (IF shape.home THEN <<Link(HomeText, BASE_URL)>> ELSE <<>>)
        \o (IF shape.next # Null THEN <<Link(NextText, shape.next)>> ELSE <<>>)
        \o [k \in 1..Len(shape.subs) |->
              Link(Plain(IF shape.alias THEN AliasNames[k] ELSE shape.subs[k]),
                   shape.subs[k])]]

Shape(content, next, subs) ==
    [content |-> content, next |-> next, subs |-> subs, home |-> TRUE, front |-> FALSE,
     alias |-> FALSE, pre |-> <<>>]

\* ---------------------------------------------------------------- state

VARIABLES
    site,          \* the source: [shape |-> [Urls -> shape], down |-> the URLs whose load throws]
    db,            \* the store
    run,           \* the number of runScraper processes started so far
    pc,            \* where runScraper is: "start", "authors", "books", "drill", "done", "killed"
    sidebarLinks,  \* runScraper's sidebarLinks
    authors,       \* runScraper's authors
    ai,            \* the index of the author of the for loop
    authorId,
    books,         \* the books of the current author
    bi,            \* the index of the next book of the for loop
    bookId,
    visited,       \* the visited set of the current book
    stack,         \* the pending calls of drillRecursive and surfLinear, innermost last
    fatal,         \* what the catch of runScraper caught: "none", "root", "author"
    loads,         \* history: the page loads for the current book, [by, url, ok]
    promised,      \* history: the sub-links of the INDEX pages met for the current book
    handed,        \* history: the sub-links handed to drillRecursive for the current book
    ref,           \* history: the store of the same run had it started on an empty store
    refIds,        \* history: the ids of the current author, book and chapter in ref
    snap,          \* history: the store when the current run started
    prevEnded,     \* history: the run before this one reached its end
    analyses       \* history: the calls of analyzePage of all runs

vars == <<site, db, run, pc, sidebarLinks, authors, ai, authorId, books, bi, bookId,
          visited, stack, fatal, loads, promised, handed, ref, refIds, snap,
          prevEnded, analyses>>

ctl == <<sidebarLinks, authors, ai, authorId, books, bi, bookId>>
hist == <<loads, promised, handed>>

\* page.goto(url) throws (a failed or timed-out load)
Throws(url) == url \in site.down \/ url \notin DOMAIN site.shape

Page(url) == PageOf(site.shape[url], site.blocks)

Top == stack[Len(stack)]
Pop(st) == SubSeq(st, 1, Len(st) - 1)
ReplaceTop(st, f) == Append(Pop(st), f)

\* ---------------------------------------------------------------- runScraper

\* Array.from(document.querySelectorAll('a')).filter(a => a.href.includes('/books/')).map(a => a.href)
RECURSIVE BooksHrefs(_)
BooksHrefs(anchors) ==
    IF anchors = <<>> THEN <<>>
    ELSE (IF InBooks(Head(anchors).href) THEN <<Head(anchors).href>> ELSE <<>>)
         \o BooksHrefs(Tail(anchors))

IsAuthorLink(l) == InBooks(l.href) /\ l.text.len > 2 /\ ~Includes(l.text, "bayit")

RECURSIVE AuthorLinks(_)
AuthorLinks(anchors) ==
    IF anchors = <<>> THEN <<>>
    ELSE (IF IsAuthorLink(Head(anchors)) THEN <<Head(anchors)>> ELSE <<>>)
         \o AuthorLinks(Tail(anchors))

\* A books filter without the sidebar test.
IsBookLinkAnywhere(l, sidebar) == InBooks(l.href) /\ l.text.len > 2

IsBookLink(l, sidebar) == InBooks(l.href) /\ ~InList(sidebar, l.href) /\ l.text.len > 2

RECURSIVE BookLinks(_, _)
BookLinks(anchors, sidebar) ==
    IF anchors = <<>> THEN <<>>
    ELSE (IF IsBookLink(Head(anchors), sidebar) THEN <<Head(anchors)>> ELSE <<>>)
         \o BookLinks(Tail(anchors), sidebar)

\* 1. Initial Setup: the root page gives the sidebar links and the authors; a
\* failed load of the root is caught by the catch of runScraper.
Setup ==
    /\ pc = "start"
    /\ IF Throws(BASE_URL)
       THEN /\ pc' = "done"
            /\ fatal' = "root"
            /\ UNCHANGED <<sidebarLinks, authors, ai>>
       ELSE /\ sidebarLinks' = Append(BooksHrefs(Page(BASE_URL).anchors), BASE_URL)
            /\ authors' = AuthorLinks(Page(BASE_URL).anchors)
            /\ ai' = 1
            /\ pc' = "authors"
            /\ UNCHANGED fatal
    /\ UNCHANGED <<site, analyses, db, run, authorId, books, bi, bookId, visited, stack, hist,
                   ref, refIds, snap, prevEnded>>

\* 2. Iterate Authors: one turn of the outer for loop up to the books of the
\* author; the load of the author's page is inside the try of runScraper only.
NextAuthor ==
    /\ pc = "authors"
    /\ IF ai > Len(authors)
       THEN /\ pc' = "done"
            /\ UNCHANGED <<db, authorId, books, bi, fatal, ref, refIds>>
       ELSE LET author == authors[ai]
                got == getOrInsertAuthor(db, author.text.s, author.href)
                rgot == getOrInsertAuthor(ref, author.text.s, author.href)
            IN /\ db' = got.db
               /\ authorId' = got.id
               /\ ref' = rgot.db
               /\ refIds' = [refIds EXCEPT !.author = rgot.id]
               /\ IF Throws(author.href)
                  THEN /\ pc' = "done"
                       /\ fatal' = "author"
                       /\ UNCHANGED <<books, bi>>
                  ELSE /\ books' = BookLinks(Page(author.href).anchors, sidebarLinks)
                       /\ bi' = 1
                       /\ pc' = "books"
                       /\ UNCHANGED fatal
    /\ UNCHANGED <<site, analyses, run, sidebarLinks, authors, ai, bookId, visited, stack, hist,
                   snap, prevEnded>>

\* const visited = new Set<string>()
NewVisited(href) == {}

\* 3. Iterate Books: one turn of the inner for loop up to the call of
\* drillRecursive, or the end of the loop and the next author.
NextBook ==
    /\ pc = "books"
    /\ IF bi > Len(books)
       THEN /\ pc' = "authors"
            /\ ai' = ai + 1
            /\ UNCHANGED <<db, bi, bookId, visited, stack, hist, ref, refIds>>
       ELSE LET book == books[bi]
                got == getOrInsertBook(db, authorId, book.text.s, book.href)
                rgot == getOrInsertBook(ref, refIds.author, book.text.s, book.href)
            IN /\ db' = got.db
               /\ bookId' = got.id
               /\ ref' = rgot.db
               /\ refIds' = [refIds EXCEPT !.book = rgot.id]
               /\ visited' = NewVisited(book.href)
               /\ stack' = <<[k |-> "drill", url |-> book.href,
                              breadcrumbPath |-> <<book.text.s>>]>>
               /\ bi' = bi + 1
               /\ pc' = "drill"
               /\ loads' = <<>>
               /\ promised' = 0
               /\ handed' = 0
               /\ UNCHANGED ai
    /\ UNCHANGED <<site, analyses, run, sidebarLinks, authors, authorId, books, fatal, snap,
                   prevEnded>>

\* A runScraper that does not wait for drillRecursive to return.
ResumeEarly(st) == "books"

\* The control after a step of the driller or the surfer: back in the book
\* loop once the outermost drillRecursive has returned.

Resume(st) == IF st = <<>> THEN "books" ELSE "drill"

\* ---------------------------------------------------------------- the calls of analyzePage

\* The record of one call in analyses.
Call(by, url, excludeUrls, result) ==
    [run |-> run, by |-> by, url |-> url, excludeUrls |-> excludeUrls, result |-> result]

\* ---------------------------------------------------------------- drillRecursive

\* The deepest nesting of calls the model follows.
MaxStack == 12

\* A driller whose visited test is missing.
DrillSeenNever(url, visitedUrls) == FALSE

\* if (visitedUrls.has(url)) return;
DrillSeen(url, visitedUrls) == url \in visitedUrls

\* An INDEX or EMPTY branch that forgets to mark the URL.
AddVisitedForgotten(visitedUrls, url) == visitedUrls

\* visitedUrls.add(url) of the INDEX and EMPTY branches
AddVisited(visitedUrls, url) == visitedUrls \cup {url}

\* An exception that no frame of the driller catches.
DrillCatchEscapes(st) == <<>>

\* catch (e) { console.error(...) }: the call returns to its caller.
DrillCatch(st) == Pop(st)

\* A catch block that marks the URL whose load has failed.
DrillCatchMarks(visitedUrls, url) == visitedUrls \cup {url}

\* catch (e) { console.error(...) }: the set is left as it was.
DrillCatchVisited(visitedUrls, url) == visitedUrls

\* breadcrumbPath.slice(1).join(' - ')
BaseTitle(breadcrumbPath) == Tail(breadcrumbPath)

\* A hand-off that starts the surfer at the page after the one analysed.
SurfFrameFromNext(url, baseTitle, startSeq) ==
    [k |-> "surf", currentUrl |-> FindNext(Page(url).anchors), sequence |-> startSeq,
     sessionVisited |-> {}, baseTitle |-> baseTitle]

\* The call surfLinear(page, url, bookId, baseTitle, 1, visitedUrls) as it starts.
SurfFrame(url, baseTitle, startSeq) ==
    [k |-> "surf", currentUrl |-> url, sequence |-> startSeq,
     sessionVisited |-> {}, baseTitle |-> baseTitle]

\* One call of drillRecursive from its start to its first nested call or its
\* return: the visited test, the load and analysis, and the branch taken.
DrillStep ==
    /\ pc = "drill"
    /\ Top.k = "drill"
    /\ LET url == Top.url
       IN IF DrillSeen(url, visited)
          THEN /\ stack' = Pop(stack)
               /\ UNCHANGED <<visited, hist, analyses>>
          ELSE IF Throws(url)
               THEN /\ stack' = DrillCatch(stack)
                    /\ loads' = Append(loads, [by |-> "drill", url |-> url, ok |-> FALSE])
                    /\ visited' = DrillCatchVisited(visited, url)
                    /\ UNCHANGED <<promised, handed, analyses>>
               ELSE \E page \in {Page(url)} :
                    \E analysis \in {analyzePage(page, url, sidebarLinks)} :
                       /\ loads' = Append(loads, [by |-> "drill", url |-> url, ok |-> TRUE])
                       /\ analyses' = analyses \cup {Call("drill", url, sidebarLinks, analysis)}
                       /\ UNCHANGED handed
                       /\ IF analysis.type = "CONTENT"
                          THEN /\ stack' = ReplaceTop(stack,
                                              SurfFrame(url, BaseTitle(Top.breadcrumbPath), 1))
                               /\ UNCHANGED <<visited, promised>>
                          ELSE IF analysis.type = "INDEX"
                               THEN /\ visited' = AddVisited(visited, url)
                                    /\ stack' = ReplaceTop(stack,
                                                   [k |-> "loop", url |-> url,
                                                    breadcrumbPath |-> Top.breadcrumbPath,
                                                    links |-> analysis.links, i |-> 1])
                                    /\ promised' = promised + Len(analysis.links)
                               ELSE /\ visited' = AddVisited(visited, url)
                                    /\ stack' = Pop(stack)
                                    /\ UNCHANGED promised
    /\ pc' = Resume(stack')
    /\ UNCHANGED <<site, db, run, ctl, fatal, ref, refIds, snap, prevEnded>>

\* for (const link of analysis.links) await drillRecursive(...): the next
\* nested call, or the return after the last link.
DrillLoop ==
    /\ pc = "drill"
    /\ Top.k = "loop"
    /\ IF Top.i <= Len(Top.links)
       THEN LET link == Top.links[Top.i]
            IN /\ Len(stack) < MaxStack
               /\ stack' = Append(ReplaceTop(stack, [Top EXCEPT !.i = @ + 1]),
                                  [k |-> "drill", url |-> link.href,
                                   breadcrumbPath |-> Append(Top.breadcrumbPath, link.text.s)])
               /\ handed' = handed + 1
       ELSE /\ stack' = Pop(stack)
            /\ UNCHANGED handed
    /\ pc' = Resume(stack')
    /\ UNCHANGED <<site, analyses, db, run, ctl, visited, fatal, loads, promised, ref, refIds,
                   snap, prevEnded>>

\* ---------------------------------------------------------------- surfLinear

\* A surfer that tests only its own session set.
SurfSeenSessionOnly(url, globalVisited, sessionVisited) == url \in sessionVisited

\* The two cycle protections at the head of the while loop.
SurfSeen(url, globalVisited, sessionVisited) ==
    url \in globalVisited \/ url \in sessionVisited

\* A surfer that takes no title for a front-matter title.
IsStartPageNever(pageTitle) == FALSE

\* A surfer that does not mark the URL it is about to load.
AddGlobalVisitedForgotten(globalVisited, url) == globalVisited

\* globalVisited.add(currentUrl), before the load
AddGlobalVisited(globalVisited, url) == globalVisited \cup {url}

\* titleLower.includes(...) for the three front-matter markers
IsStartPage(pageTitle) == pageTitle \in {"haskama", "introduction", "chelek rishon"}

LoopGuardSeq == 5

\* `${baseTitle} - Part ${sequence}`
PartTitle(baseTitle, sequence) == [base |-> baseTitle, part |-> sequence]

\* One turn of the while loop up to the return of getOrInsertChapter: the
\* cycle protections, the marking, the load and analysis, the loop breaker
\* and the chapter row. Every exit of the loop returns from surfLinear, and
\* drillRecursive returns right after it.
SurfStep ==
    /\ pc = "drill"
    /\ Top.k = "surf"
    /\ LET currentUrl == Top.currentUrl
       IN IF SurfSeen(currentUrl, visited, Top.sessionVisited)
          THEN /\ stack' = Pop(stack)
               /\ UNCHANGED <<visited, db, ref, refIds, loads, analyses>>
          ELSE /\ visited' = AddGlobalVisited(visited, currentUrl)
               /\ loads' = Append(loads, [by |-> "surf", url |-> currentUrl,
                                          ok |-> ~Throws(currentUrl)])
               /\ IF Throws(currentUrl)
                  THEN /\ stack' = Pop(stack)
                       /\ UNCHANGED <<db, ref, refIds, analyses>>
                  ELSE \E page \in {Page(currentUrl)} :
                       \E analysis \in {analyzePage(page, currentUrl, <<>>)} :
                          /\ analyses' = analyses \cup {Call("surf", currentUrl, <<>>, analysis)}
                          /\ IF analysis.type = "CONTENT"
                             THEN IF Top.sequence > LoopGuardSeq /\ IsStartPage(analysis.pageTitle)
                                  THEN /\ stack' = Pop(stack)
                                       /\ UNCHANGED <<db, ref, refIds>>
                                  ELSE LET title == PartTitle(Top.baseTitle, Top.sequence)
                                           got == getOrInsertChapter(db, bookId, title,
                                                                     currentUrl, Top.sequence)
                                           rgot == getOrInsertChapter(ref, refIds.book, title,
                                                                      currentUrl, Top.sequence)
                                       IN /\ db' = got.db
                                          /\ ref' = rgot.db
                                          /\ refIds' = [refIds EXCEPT !.chapter = rgot.id]
                                          /\ stack' = ReplaceTop(stack,
                                               [k |-> "save", currentUrl |-> currentUrl,
                                                sequence |-> Top.sequence,
                                                sessionVisited |-> Top.sessionVisited \cup {currentUrl},
                                                baseTitle |-> Top.baseTitle,
                                                chapId |-> got.id,
                                                segments |-> analysis.segments,
                                                nextUrl |-> analysis.nextUrl])
                             ELSE /\ stack' = Pop(stack)
                                  /\ UNCHANGED <<db, ref, refIds>>
    /\ pc' = Resume(stack')
    /\ UNCHANGED <<site, run, ctl, fatal, promised, handed, snap, prevEnded>>

\* A surfer that never advances its counter.
SequenceStuck(sequence) == sequence

\* sequence++
NextSequence(sequence) == sequence + 1

\* The rest of the turn: insertSegments, sequence++, and the next URL.
SurfSave ==
    /\ pc = "drill"
    /\ Top.k = "save"
    /\ db' = insertSegments(db, Top.chapId, Top.segments).db
    /\ ref' = insertSegments(ref, refIds.chapter, Top.segments).db
    /\ IF Top.nextUrl # Null /\ Top.nextUrl # Top.currentUrl
       THEN stack' = ReplaceTop(stack,
                        [k |-> "surf", currentUrl |-> Top.nextUrl,
                         sequence |-> NextSequence(Top.sequence),
                         sessionVisited |-> Top.sessionVisited,
                         baseTitle |-> Top.baseTitle])
       ELSE stack' = Pop(stack)
    /\ pc' = Resume(stack')
    /\ UNCHANGED <<site, analyses, run, ctl, visited, fatal, hist, refIds, snap, prevEnded>>

\* ---------------------------------------------------------------- the process

\* The number of times the script is started in one behaviour.
MaxRuns == 2

NoIds == [author |-> 0, book |-> 0, chapter |-> 0]

Running == pc \in {"start", "authors", "books", "drill"}

\* The memory of a process that has not started runScraper yet.
FreshProcess ==
    /\ pc' = "start"
    /\ sidebarLinks' = <<>>
    /\ authors' = <<>>
    /\ ai' = 0
    /\ authorId' = 0
    /\ books' = <<>>
    /\ bi' = 0
    /\ bookId' = 0
    /\ visited' = {}
    /\ stack' = <<>>
    /\ fatal' = "none"
    /\ loads' = <<>>
    /\ promised' = 0
    /\ handed' = 0
    /\ ref' = EmptyDb
    /\ refIds' = NoIds

\* The process is stopped from outside between two awaits; the store keeps
\* what was written.
Kill ==
    /\ Running
    /\ pc' = "killed"
    /\ UNCHANGED <<site, analyses, db, run, ctl, visited, stack, fatal, hist, ref, refIds, snap,
                   prevEnded>>

\* The script is started again on the same source and the same store.
Rerun ==
    /\ pc \in {"done", "killed"}
    /\ run < MaxRuns
    /\ run' = run + 1
    /\ snap' = db
    /\ prevEnded' = (pc = "done")
    /\ FreshProcess
    /\ UNCHANGED <<site, analyses, db>>

InitOn(sites) ==
    /\ site \in sites
    /\ db = EmptyDb
    /\ run = 1
    /\ pc = "start"
    /\ sidebarLinks = <<>>
    /\ authors = <<>>
    /\ ai = 0
    /\ authorId = 0
    /\ books = <<>>
    /\ bi = 0
    /\ bookId = 0
    /\ visited = {}
    /\ stack = <<>>
    /\ fatal = "none"
    /\ loads = <<>>
    /\ promised = 0
    /\ handed = 0
    /\ ref = EmptyDb
    /\ refIds = NoIds
    /\ snap = EmptyDb
    /\ prevEnded = FALSE
    /\ analyses = {}

\* ---------------------------------------------------------------- the sources checked

\* The most URLs of one source whose load throws.
MaxDown == 1

RootShape(subs) == [Shape(FALSE, Null, subs) EXCEPT !.home = TRUE]

\* Sources of two authors for the runs of the whole script.
LibraryShapes ==
    { [u \in Urls |->
         CASE u = BASE_URL -> RootShape(<<"a1", "a2">>)
           [] u = "a1" -> Shape(FALSE, Null, b1)
           [] u = "a2" -> Shape(FALSE, Null, <<"p2">>)
           [] u = "p1" -> s1
           [] u = "p2" -> s2
           [] u = "p3" -> s3] :
        b1 \in {<<"p1">>, <<"p1", "p2">>},
        s1 \in {Shape(FALSE, Null, <<"p2", "p3">>), Shape(TRUE, "p3", <<>>),
                Shape(FALSE, Null, <<"p3", "p3">>)},
        s2 \in {Shape(TRUE, "p3", <<>>), Shape(FALSE, Null, <<"p3", "p1">>)},
        s3 \in {Shape(TRUE, Null, <<>>), Shape(TRUE, "p1", <<"p2">>),
                Shape(FALSE, Null, <<"p1">>)} }

LibrarySites ==
    { [shape |-> sh, down |-> d, blocks |-> DefaultBlocks] :
        sh \in LibraryShapes,
        d \in {x \in SUBSET {BASE_URL, "a1", "a2", "p3"} : Cardinality(x) <= MaxDown} }

Init == InitOn(LibrarySites)

Next ==
    \/ Setup
    \/ NextAuthor
    \/ NextBook
    \/ DrillStep
    \/ DrillLoop
    \/ SurfStep
    \/ SurfSave
    \/ Kill
    \/ Rerun

Spec == Init /\ [][Next]_vars

\* Sources of one author and one book for the traversal of a book: every page
\* of the book is drawn freely, so every link graph over the three pages is
\* among them, cycles and links back to the book root, the author and the
\* site root included.
LinkLists ==
    {<<>>, <<"p1">>, <<"p2">>, <<"p3">>, <<"p1", "p2">>, <<"p1", "p3">>,
     <<"p2", "p3">>, <<"p3", "p2">>, <<"p1", "p2", "p3">>, <<"p3", "p3">>,
     <<"a1", "p2">>}

PageShapes ==
    {Shape(TRUE, n, <<>>) : n \in PageUrls \cup {Null, "a1"}}
    \cup {Shape(FALSE, Null, l) : l \in LinkLists}
    \cup {Shape(TRUE, Null, <<"p1", "p2", "p3">>), Shape(FALSE, "p2", <<"p3">>)}

BookShapes ==
    { [u \in Urls |->
         CASE u = BASE_URL -> RootShape(<<"a1">>)
           [] u = "a1" -> Shape(FALSE, Null, <<"p1">>)
           [] u = "a2" -> Shape(FALSE, Null, <<>>)
           [] u = "p1" -> s1
           [] u = "p2" -> s2
           [] u = "p3" -> s3] :
        s1 \in PageShapes, s2 \in PageShapes, s3 \in PageShapes }

BookSites ==
    { [shape |-> sh, down |-> d, blocks |-> DefaultBlocks] :
        sh \in BookShapes,
        d \in {x \in SUBSET PageUrls : Cardinality(x) <= MaxDown} }

DrillInit == InitOn(BookSites)

DrillNext ==
    \/ Setup
    \/ NextAuthor
    \/ NextBook
    \/ DrillStep
    \/ DrillLoop
    \/ SurfStep
    \/ SurfSave

\* One run of the script, never stopped from outside.
DrillSpec == DrillInit /\ [][DrillNext]_vars

\* The event loop runs every continuation that is ready.
FairDrillSpec == DrillSpec /\ WF_vars(DrillNext)

\* ---------------------------------------------------------------- scenario sources

\* The pages of the scenario sources, in chain order.
ChainUrls == <<"p1", "p2", "p3", "p4", "p5", "p6", "p7", "p8", "p9", "p10", "p11", "p12">>

ChainSet(n) == {ChainUrls[k] : k \in 1..n}

ChainIndex(u) == CHOOSE k \in 1..Len(ChainUrls) : ChainUrls[k] = u

\* A source of one author a1 with one book p1: root is the shape of the site
\* root, author the shape of a1, pages the shapes of the book's pages.
BookSource(root, author, pages) ==
    [u \in {BASE_URL, "a1"} \cup DOMAIN pages |->
        IF u = BASE_URL THEN root ELSE IF u = "a1" THEN author ELSE pages[u]]

PlainRoot == RootShape(<<"a1">>)
PlainAuthor == Shape(FALSE, Null, <<"p1">>)

EmptyLeaf == Shape(FALSE, Null, <<>>)
ContentLeaf == Shape(TRUE, Null, <<>>)

\* A book of n content pages chained by next-links, the last one having the
\* next-link last (Null for none).
ChainPages(n, last) ==
    [u \in ChainSet(n) |->
        Shape(TRUE, IF ChainIndex(u) < n THEN ChainUrls[ChainIndex(u) + 1] ELSE last, <<>>)]

ChainSites ==
    { [shape |-> BookSource(PlainRoot, PlainAuthor, ChainPages(n, last)),
       down |-> {}, blocks |-> DefaultBlocks] :
        n \in 1..4, last \in {Null, "p1"} }

\* Scenario A: four chained content pages, the last without a next-link.
ScenarioA ==
    [shape |-> BookSource(PlainRoot, PlainAuthor, ChainPages(4, Null)),
     down |-> {}, blocks |-> DefaultBlocks]

\* A book whose root is an INDEX page with the sub-links subs, every
\* sub-link leading to a page of the shape leaf.
FanPages(subs, leaf) ==
    [u \in {"p1"} \cup {subs[k] : k \in DOMAIN subs} |->
        IF u = "p1" THEN Shape(FALSE, Null, subs) ELSE leaf]

FanLists ==
    {<<"p2", "p3", "p2", "p4", "p5">>, <<"p2", "p3", "p4", "p5", "p6">>,
     <<"p2", "p2">>, <<"p2", "p3", "p3", "p2">>}

FanSites ==
    { [shape |-> BookSource(PlainRoot, PlainAuthor, FanPages(subs, leaf)),
       down |-> d, blocks |-> DefaultBlocks] :
        subs \in FanLists, leaf \in {EmptyLeaf, ContentLeaf},
        d \in {x \in SUBSET {"p2", "p3"} : Cardinality(x) <= MaxDown} }

\* Scenario B: five sub-links, the third repeating the first.
ScenarioB ==
    [shape |-> BookSource(PlainRoot, PlainAuthor,
                          FanPages(<<"p2", "p3", "p2", "p4", "p5">>, EmptyLeaf)),
     down |-> {}, blocks |-> DefaultBlocks]

\* A book of n pages nested one under the other: every page but the last is
\* an INDEX page whose one sub-link is the next page.
DeepPages(n) ==
    [u \in ChainSet(n) |->
        IF ChainIndex(u) < n THEN Shape(FALSE, Null, <<ChainUrls[ChainIndex(u) + 1]>>)
        ELSE EmptyLeaf]

DeepSites ==
    { [shape |-> BookSource(PlainRoot, PlainAuthor, DeepPages(n)),
       down |-> {}, blocks |-> DefaultBlocks] :
        n \in 1..Len(ChainUrls) }

\* Sources whose root or author page shows its links under names of their
\* own, so that one URL may appear under two names.
AliasSites ==
    { [shape |-> BookSource([RootShape(authorLinks) EXCEPT !.alias = TRUE],
                            [Shape(FALSE, Null, bookLinks) EXCEPT !.alias = TRUE],
                            ChainPages(1, Null)),
       down |-> {}, blocks |-> DefaultBlocks] :
        authorLinks \in {<<"a1">>, <<"a1", "a1">>},
        bookLinks \in {<<"p1">>, <<"p1", "p1">>} }

\* Candidate elements of every mix of Hebrew count and link count around the
\* two thresholds.
Block(txt, links) == [txt |-> txt, links |-> links]

CountBlocks ==
    {Block(<<R("heb", h)>>, l) : h \in {100, 101, 150, 151}, l \in {0, 2, 3, 10}}

\* Lines: prose, a Hebrew letter alone, blanks, punctuation, "12" and "*".
LineKinds ==
    {<<R("heb", 120)>>, <<R("heb", 1)>>, <<R("sp", 3)>>, <<R("oth", 3)>>,
     <<R("dig", 2)>>, <<R("dig", 1)>>}

\* Blocks of a line of prose followed by two more lines.
TextBlocks ==
    {Block(<<R("heb", 120), R("nl", 1)>> \o l1 \o <<R("nl", 1)>> \o l2, 0) :
        l1 \in LineKinds, l2 \in LineKinds}

\* Blocks with an arrow marker: heading the text with a page label (the
\* artifact), on a line of its own after two lines of prose, and at the end
\* of the second line.
ArrowBlocks ==
    {Block(<<R("arr", 1), R("heb", 2), R("nl", 1), R("heb", 120), R("nl", 1),
             R("heb", 60)>>, 0),
     Block(<<R("heb", 120), R("nl", 1), R("heb", 60), R("nl", 1), R("arr", 1),
             R("heb", 2), R("nl", 1), R("heb", 80)>>, 0),
     Block(<<R("heb", 120), R("nl", 1), R("heb", 60), R("sp", 1), R("arr", 1),
             R("nl", 1), R("heb", 80)>>, 0)}

\* A book of one page carrying one block, with and without a sub-link.
TextSites ==
    { [shape |-> BookSource(PlainRoot, PlainAuthor,
                            [u \in {"p1", "p2"} |-> IF u = "p1" THEN sh ELSE EmptyLeaf]),
       down |-> {}, blocks |-> <<b>>] :
        sh \in {Shape(TRUE, Null, <<>>), Shape(TRUE, Null, <<"p2">>)},
        b \in CountBlocks \cup TextBlocks \cup ArrowBlocks }

\* Pages of several candidate elements: two of the same Hebrew count and
\* different lines, with a larger one, and with a larger one of too many
\* links.
OneLine150 == Block(<<R("heb", 150)>>, 0)
TwoLines150 == Block(<<R("heb", 75), R("nl", 1), R("heb", 75)>>, 0)
ThreeLines200 ==
    Block(<<R("heb", 50), R("nl", 1), R("heb", 50), R("nl", 1), R("heb", 100)>>, 1)
Linked300 == Block(<<R("heb", 300)>>, 10)

TieBlockLists ==
    {<<OneLine150, TwoLines150>>, <<TwoLines150, OneLine150>>,
     <<OneLine150, TwoLines150, ThreeLines200>>, <<ThreeLines200, OneLine150>>,
     <<Linked300, TwoLines150, OneLine150>>, <<Linked300, LinkBlock>>}

TieSites ==
    { [shape |-> BookSource(PlainRoot, PlainAuthor, ChainPages(1, Null)),
       down |-> {}, blocks |-> bs] : bs \in TieBlockLists }

\* Books whose first page opens with navigation links of every kind:
\* previous, both arrows, next by word, previous with an arrow, no text,
\* and a next-link to the page itself; the page is a CONTENT or an INDEX
\* page, with or without an arrow next-link, and its plain links include one
\* to itself and one to the author page.
NavLists ==
    {<<>>,
     <<Link(PrevText, "p3")>>,
     <<Link(BothText, "p3")>>,
     <<Link(HabaText, "p3")>>,
     <<Link(HakodemNextText, "p3")>>,
     <<Link(BothText, "p3"), Link(PrevText, "p3"), Link(EmptyText, "p3")>>,
     <<Link(EmptyText, "p2")>>,
     <<Link(HabaText, "p1")>>}

NavSites ==
    { [shape |-> BookSource(PlainRoot, PlainAuthor,
                    [u \in {"p1", "p2", "p3"} |->
                        IF u = "p1" THEN [Shape(c, n, subs) EXCEPT !.pre = nav]
                        ELSE IF u = "p2" THEN ContentLeaf ELSE EmptyLeaf]),
       down |-> {}, blocks |-> DefaultBlocks] :
        c \in BOOLEAN, n \in {Null, "p2"}, nav \in NavLists,
        subs \in {<<>>, <<"p2">>, <<"a1">>, <<"p1", "a1", "p3">>} }

\* A book of seven chained content pages of which the page at place front
\* (none for 0) has a front-matter title.
GuardChain == 7

GuardSites ==
    { [shape |-> BookSource(PlainRoot, PlainAuthor,
                    [u \in ChainSet(GuardChain) |->
                        [ChainPages(GuardChain, Null)[u] EXCEPT
                            !.front = (ChainIndex(u) = front)]]),
       down |-> {}, blocks |-> DefaultBlocks] :
        front \in 0..GuardChain }

\* A book whose root is an INDEX page with two sub-links: the first leads
\* to a chain of content pages whose next-links end at page n, the second
\* leads to page n itself. Page n is the shape stop; page n + 1 is a
\* content page.
DetourPages(n, stop) ==
    [u \in ChainSet(n + 1) |->
        IF ChainIndex(u) = 1 THEN Shape(FALSE, Null, <<"p2", ChainUrls[n]>>)
        ELSE IF ChainIndex(u) < n THEN Shape(TRUE, ChainUrls[ChainIndex(u) + 1], <<>>)
        ELSE IF ChainIndex(u) = n THEN stop
        ELSE ContentLeaf]

\* The chain ends at an INDEX page, at a page that may fail to load, or at
\* a front-matter page reached after the loop breaker's threshold.
DetourSites ==
    { [shape |-> BookSource(PlainRoot, PlainAuthor,
                    DetourPages(3, Shape(FALSE, Null, <<"p4">>))),
       down |-> d, blocks |-> DefaultBlocks] : d \in {{}, {"p3"}} }
    \cup
    { [shape |-> BookSource(PlainRoot, PlainAuthor,
                    DetourPages(GuardChain, [ContentLeaf EXCEPT !.front = TRUE])),
       down |-> {}, blocks |-> DefaultBlocks] }

\* A book whose root is an INDEX page with the sub-links p2, p3 and p4,
\* where p4 is an INDEX page that links to p2 again and p3 is the shape
\* third; p2 may fail to load.
RetryPages(third) ==
    [u \in ChainSet(4) |->
        CASE u = "p1" -> Shape(FALSE, Null, <<"p2", "p3", "p4">>)
          [] u = "p2" -> ContentLeaf
          [] u = "p3" -> third
          [] u = "p4" -> Shape(FALSE, Null, <<"p2">>)]

RetrySites ==
    { [shape |-> BookSource(PlainRoot, PlainAuthor, RetryPages(third)),
       down |-> d, blocks |-> DefaultBlocks] :
        third \in {ContentLeaf, EmptyLeaf, Shape(TRUE, "p2", <<>>)},
        d \in {{}, {"p2"}} }

ScenarioSites ==
    ChainSites \cup FanSites \cup DeepSites \cup AliasSites \cup TextSites \cup TieSites
    \cup NavSites \cup GuardSites \cup DetourSites \cup RetrySites

ScenarioInit == InitOn(ScenarioSites)

\* One run of the script over a scenario source.
ScenarioSpec == ScenarioInit /\ [][DrillNext]_vars

\* ---------------------------------------------------------------- the "Loop Fixed" script

\* The script that walks a book with crawlRecursive alone, over the same
\* sources: its wrappers for authors, books and chapters are those above.

\* A menu inside <nav>: a candidate of the original document only.
NavMenu == [txt |-> <<R("heb", 200)>>, links |-> 0, nav |-> TRUE]

\* document.querySelectorAll('div, table, article, td, span') on the
\* document itself, nothing removed.
LF_Candidates(page) ==
    <<NavMenu>> \o [k \in DOMAIN page.cands |->
                       [txt |-> page.cands[k].txt, links |-> page.cands[k].links,
                        nav |-> FALSE]]

\* candidates.forEach: [best |-> the index of bestTextEl (0 for null),
\* max |-> maxHebrewCount] after the elements i.. have been seen.
RECURSIVE LF_BestFrom(_, _, _, _)
LF_BestFrom(cands, i, best, maxHebrewCount) ==
    IF i > Len(cands) THEN [best |-> best, max |-> maxHebrewCount]
    ELSE IF cands[i].nav THEN LF_BestFrom(cands, i + 1, best, maxHebrewCount)
         ELSE IF /\ HebrewCount(cands[i].txt) > maxHebrewCount
                 /\ (cands[i].links > 0 => TextLength(cands[i].txt) > 50 * cands[i].links)
              THEN LF_BestFrom(cands, i + 1, i, HebrewCount(cands[i].txt))
              ELSE LF_BestFrom(cands, i + 1, best, maxHebrewCount)

LF_IsSubLink(l, currentUrl, excludeList) ==
    /\ InBooks(l.href)
    /\ ~InList(excludeList, l.href)
    /\ l.href # currentUrl
    /\ l.text.len > 0
    /\ ~Includes(l.text, "daf habayit")
    /\ ~Includes(l.text, "hakodem")
    /\ ~Includes(l.text, "haba")
    /\ ~Includes(l.text, "tochen")

RECURSIVE LF_AllLinks(_, _, _)
LF_AllLinks(anchors, currentUrl, excludeList) ==
    IF anchors = <<>> THEN <<>>
    ELSE (IF LF_IsSubLink(Head(anchors), currentUrl, excludeList)
          THEN <<Head(anchors)>> ELSE <<>>)
         \o LF_AllLinks(Tail(anchors), currentUrl, excludeList)

LF_analyzePage(page, currentUrl, excludeUrls) ==
    CHOOSE out \in
      { IF found.best # 0 /\ found.max > 100
        THEN [type |-> "CONTENT", text |-> cands[found.best].txt]
        ELSE IF Len(allLinks) > 0
             THEN [type |-> "INDEX", links |-> allLinks]
             ELSE [type |-> "EMPTY"] :
          cands \in {LF_Candidates(page)},
          found \in {LF_BestFrom(LF_Candidates(page), 1, 0, 0)},
          allLinks \in {LF_AllLinks(page.anchors, currentUrl, excludeUrls)} } : TRUE

\* text.split(...).map(s => s.trim()).filter(s => s.length > 5)
RECURSIVE LF_SelectLong(_)
LF_SelectLong(ls) ==
    IF ls = <<>> THEN <<>>
    ELSE (IF TextLength(Head(ls)) > 5 THEN <<Head(ls)>> ELSE <<>>)
         \o LF_SelectLong(Tail(ls))

\* The for loop of insertSegments from segment i on, seq being the next
\* sequence number: a row is written when no single row holds (chapterId, seq).
RECURSIVE LF_InsertFrom(_, _, _, _, _)
LF_InsertFrom(store, chapterId, segments, i, seq) ==
    IF i > Len(segments) THEN [db |-> store, count |-> seq - 1]
    ELSE IF ~HasHebrew(segments[i])
         THEN LF_InsertFrom(store, chapterId, segments, i + 1, seq)
         ELSE LET hits == {k \in 1..Len(store.segments) :
                             /\ store.segments[k].chapter_id = chapterId
                             /\ store.segments[k].sequence_number = seq}
                  row == [chapter_id |-> chapterId, sequence_number |-> seq,
                          hebrew_text |-> segments[i]]
              IN LF_InsertFrom(IF Cardinality(hits) = 1 THEN store
                               ELSE [store EXCEPT !.segments = Append(@, row)],
                               chapterId, segments, i + 1, seq + 1)

LF_insertSegments(store, chapterId, text) ==
    CHOOSE out \in
      { LF_InsertFrom(store, chapterId, LF_SelectLong(trimmed), 1, 1) :
          trimmed \in { [k \in DOMAIN ls |-> Trim(ls[k])] :
                         ls \in {SplitLines(text, <<>>)} } } : TRUE

\* 1. Map Sidebar: the links of the root page are the authors and, with the
\* root, the sidebar URLs (kept as a list; only membership is ever asked).
RECURSIVE LF_AuthorLinks(_)
LF_AuthorLinks(anchors) ==
    IF anchors = <<>> THEN <<>>
    ELSE (IF InBooks(Head(anchors).href) /\ Head(anchors).text.len > 2
          THEN <<Head(anchors)>> ELSE <<>>)
         \o LF_AuthorLinks(Tail(anchors))

LF_Setup ==
    /\ pc = "start"
    /\ IF Throws(BASE_URL)
       THEN /\ pc' = "done"
            /\ fatal' = "root"
            /\ UNCHANGED <<sidebarLinks, authors, ai>>
       ELSE \E authorLinks \in {LF_AuthorLinks(Page(BASE_URL).anchors)} :
            /\ authors' = authorLinks
            /\ sidebarLinks' = Append([k \in DOMAIN authorLinks |-> authorLinks[k].href],
                                      BASE_URL)
            /\ ai' = 1
            /\ pc' = "authors"
            /\ UNCHANGED fatal
    /\ UNCHANGED <<site, analyses, db, run, authorId, books, bi, bookId, visited, stack, hist,
                   ref, refIds, snap, prevEnded>>

\* 2. Process Authors: one turn of the outer for loop up to the books of the
\* author.
LF_NextAuthor ==
    /\ pc = "authors"
    /\ IF ai > Len(authors)
       THEN /\ pc' = "done"
            /\ UNCHANGED <<db, ai, authorId, books, bi, fatal>>
       ELSE IF Includes(authors[ai].text, "daf habayit")
            THEN /\ ai' = ai + 1
                 /\ UNCHANGED <<db, pc, authorId, books, bi, fatal>>
            ELSE LET author == authors[ai]
                     got == getOrInsertAuthor(db, author.text.s, author.href)
                 IN /\ db' = got.db
                    /\ authorId' = got.id
                    /\ UNCHANGED ai
                    /\ IF Throws(author.href)
                       THEN /\ pc' = "done"
                            /\ fatal' = "author"
                            /\ UNCHANGED <<books, bi>>
                       ELSE /\ books' = BookLinks(Page(author.href).anchors, sidebarLinks)
                            /\ bi' = 1
                            /\ pc' = "books"
                            /\ UNCHANGED fatal
    /\ UNCHANGED <<site, analyses, run, sidebarLinks, authors, bookId, visited, stack, hist,
                   ref, refIds, snap, prevEnded>>

\* const visitedUrls = new Set<string>(); visitedUrls.add(book.href);
LF_NewVisited(href) == {href}

\* 3. Process Books: one turn of the inner for loop up to the call of
\* crawlRecursive, or the end of the loop and the next author.
LF_NextBook ==
    /\ pc = "books"
    /\ IF bi > Len(books)
       THEN /\ pc' = "authors"
            /\ ai' = ai + 1
            /\ UNCHANGED <<db, bi, bookId, visited, stack, hist>>
       ELSE IF InList(sidebarLinks, books[bi].href)
            THEN /\ bi' = bi + 1
                 /\ UNCHANGED <<db, pc, ai, bookId, visited, stack, hist>>
            ELSE LET book == books[bi]
                     got == getOrInsertBook(db, authorId, book.text.s, book.href)
                 IN /\ db' = got.db
                    /\ bookId' = got.id
                    /\ visited' = LF_NewVisited(book.href)
                    /\ stack' = <<[k |-> "crawl", url |-> book.href,
                                   breadcrumbPath |-> <<book.text.s>>,
                                   sidebarUrls |-> Append(sidebarLinks, authors[ai].href),
                                   depth |-> 1]>>
                    /\ bi' = bi + 1
                    /\ pc' = "drill"
                    /\ loads' = <<>>
                    /\ promised' = 0
                    /\ handed' = 0
                    /\ UNCHANGED ai
    /\ UNCHANGED <<site, analyses, run, sidebarLinks, authors, authorId, books, fatal, ref,
                   refIds, snap, prevEnded>>

\* The depth after which crawlRecursive gives up.
LF_MaxDepth == 10

\* analysis.links.filter(l => !visitedUrls.has(l.href))
RECURSIVE LF_UniqueLinks(_, _)
LF_UniqueLinks(links, visitedUrls) ==
    IF links = <<>> THEN <<>>
    ELSE (IF Head(links).href \in visitedUrls THEN <<>> ELSE <<Head(links)>>)
         \o LF_UniqueLinks(Tail(links), visitedUrls)

\* crawlRecursive, a step at a time: a call from its start to its first
\* nested call or its return (the cycle detection, the depth limit, the load
\* and analysis, and the branch taken), or the for loop over linksToProcess
\* at its next nested call or at its end.
crawlRecursive ==
    /\ pc = "drill"
    /\ Top.k \in {"crawl", "links"}
    /\ IF Top.k = "links"
       THEN /\ IF Top.i <= Len(Top.links)
               THEN /\ Len(stack) < MaxStack
                    /\ stack' = Append(ReplaceTop(stack, [Top EXCEPT !.i = @ + 1]),
                                   [k |-> "crawl", url |-> Top.links[Top.i].href,
                                    breadcrumbPath |-> Append(Top.breadcrumbPath,
                                                              Top.links[Top.i].text.s),
                                    sidebarUrls |-> Top.sidebarUrls,
                                    depth |-> Top.depth + 1])
                    /\ handed' = handed + 1
               ELSE /\ stack' = Pop(stack)
                    /\ UNCHANGED handed
            /\ UNCHANGED <<db, visited, loads, promised>>
       ELSE IF Top.url \in visited
            THEN /\ stack' = Pop(stack)
                 /\ UNCHANGED <<db, visited, hist>>
            ELSE /\ visited' = visited \cup {Top.url}
                 /\ IF Top.depth > LF_MaxDepth
                    THEN /\ stack' = Pop(stack)
                         /\ UNCHANGED <<db, hist>>
                    ELSE IF Throws(Top.url)
                         THEN /\ stack' = Pop(stack)
                              /\ loads' = Append(loads, [by |-> "crawl", url |-> Top.url,
                                                         ok |-> FALSE])
                              /\ UNCHANGED <<db, promised, handed>>
                         ELSE \E page \in {Page(Top.url)} :
                              \E analysis \in {LF_analyzePage(page, Top.url, Top.sidebarUrls)} :
                              /\ loads' = Append(loads, [by |-> "crawl", url |-> Top.url,
                                                         ok |-> TRUE])
                              /\ UNCHANGED handed
                              /\ IF analysis.type = "CONTENT" /\ analysis.text # <<>>
                                 THEN \E got \in {getOrInsertChapter(db, bookId,
                                                     BaseTitle(Top.breadcrumbPath), Top.url,
                                                     Top.depth * 100)} :
                                      /\ db' = LF_insertSegments(got.db, got.id,
                                                                 analysis.text).db
                                      /\ stack' = Pop(stack)
                                      /\ UNCHANGED promised
                                 ELSE IF analysis.type = "INDEX"
                                      THEN \E uniqueLinks \in
                                             {LF_UniqueLinks(analysis.links, visited')} :
                                           /\ stack' =
                                                IF Len(uniqueLinks) = 0 THEN Pop(stack)
                                                ELSE ReplaceTop(stack,
                                                       [k |-> "links",
                                                        breadcrumbPath |-> Top.breadcrumbPath,
                                                        sidebarUrls |-> Top.sidebarUrls,
                                                        depth |-> Top.depth,
                                                        links |-> uniqueLinks, i |-> 1])
                                           /\ promised' = promised + Len(uniqueLinks)
                                           /\ UNCHANGED db
                                      ELSE /\ stack' = Pop(stack)
                                           /\ UNCHANGED <<db, promised>>
    /\ pc' = Resume(stack')
    /\ UNCHANGED <<site, analyses, run, ctl, fatal, ref, refIds, snap, prevEnded>>

LF_Next ==
    \/ LF_Setup
    \/ LF_NextAuthor
    \/ LF_NextBook
    \/ crawlRecursive

\* One run of the "Loop Fixed" script.
LF_Spec == Init /\ [][LF_Next]_vars


\* ---------------------------------------------------------------- properties

Range(f) == {f[k] : k \in DOMAIN f}

C2_Terminates == <>(pc = "done")

\* The end of a run over a book whose pages p1 and p2 are content pages with
\* next-links to each other (a pagination chain that loops).
C2_Witness ==
    /\ pc = "done"
    /\ fatal = "none"
    /\ site.shape["p1"].content /\ site.shape["p1"].next = "p2"
    /\ site.shape["p2"].content /\ site.shape["p2"].next = "p1"
    /\ Len(db.chapters) = 2

\* C3: when the surfer comes to the head of its loop with a URL that is in
\* the visited set of the book or in its session set, that step ends the
\* surfer: nothing is loaded, nothing is written to the store and nothing is
\* marked.
C3_SurferHaltsOnRepeat ==
    [][(/\ pc = "drill"
        /\ Top.k = "surf"
        /\ (Top.currentUrl \in visited \/ Top.currentUrl \in Top.sessionVisited))
       => (/\ stack' = Pop(stack)
           /\ loads' = loads
           /\ db' = db
           /\ visited' = visited)]_vars

\* The surfer has saved a page and its next-link leads to a URL already in
\* the visited set.
C3_Witness ==
    /\ pc = "drill"
    /\ Top.k = "surf"
    /\ Top.sequence > 1
    /\ Top.currentUrl \in visited

\* No two rows of a table carry the same value in the column col.
UniqueBy(rows, col) ==
    \A i \in 1..Len(rows) : \A j \in 1..Len(rows) :
        rows[i][col] = rows[j][col] => i = j

\* C4: when a run that reached its end is followed by another run on the same
\* source, the store never holds two Author rows of one name, two Book rows
\* of one URL or two Chapter rows of one URL, and the second run adds no
\* Author, Book or Chapter row.
C4_SecondRunAddsNothing ==
    (run >= 2 /\ prevEnded)
    => /\ UniqueBy(db.authors, "name")
       /\ UniqueBy(db.books, "original_link")
       /\ UniqueBy(db.chapters, "original_link")
       /\ db.authors = snap.authors
       /\ db.books = snap.books
       /\ db.chapters = snap.chapters

\* The end of a second run over a source of two authors after a first run
\* that reached its end and stored at least two books and two chapters.
C4_Witness ==
    /\ run = 2
    /\ prevEnded
    /\ pc = "done"
    /\ fatal = "none"
    /\ Len(db.books) >= 2
    /\ Len(db.chapters) >= 2

\* What a get-or-create call on the table before, for the value key of the
\* column col, may leave and return.
GocOk(before, after, col, key, id) ==
    IF \E k \in 1..Len(before) : before[k][col] = key
    THEN /\ after = before
         /\ id \in 1..Len(before)
         /\ before[id][col] = key
    ELSE /\ Len(after) = Len(before) + 1
         /\ SubSeq(after, 1, Len(before)) = before
         /\ id = Len(after)
         /\ after[id][col] = key

\* C5: every get-or-create call of a run returns the id of the row that holds
\* the key when there is one and leaves the table as it was; otherwise it
\* appends exactly one row with that key and returns its id. No call fails on
\* an existing key.
C5_GetOrCreate ==
    [][/\ (pc = "authors" /\ ai <= Len(authors) /\ pc' # "killed")
          => GocOk(db.authors, db'.authors, "name", authors[ai].text.s, authorId')
       /\ (pc = "books" /\ bi <= Len(books) /\ pc' # "killed")
          => GocOk(db.books, db'.books, "original_link", books[bi].href, bookId')
       /\ (pc = "drill" /\ Top.k = "surf" /\ Len(stack') = Len(stack)
             /\ stack'[Len(stack')].k = "save")
          => GocOk(db.chapters, db'.chapters, "original_link", Top.currentUrl,
                   stack'[Len(stack')].chapId)]_vars

\* The book of the second author was found in the store under the first
\* author: a get-or-create call that met an existing key.
C5_Witness ==
    /\ pc = "drill"
    /\ bookId \in 1..Len(db.books)
    /\ db.books[bookId].author_id # authorId
    /\ Len(db.authors) = 2

\* C6: no two Segment rows of the store share (chapter_id, sequence_number).
C6_SegmentsUnique ==
    \A i \in 1..Len(db.segments) : \A j \in 1..Len(db.segments) :
        (/\ db.segments[i].chapter_id = db.segments[j].chapter_id
         /\ db.segments[i].sequence_number = db.segments[j].sequence_number)
        => i = j

\* C7: when a run reaches its end, whatever runs were stopped or ended before
\* it, the Author, Book and Chapter rows of the store are the rows that the
\* same run writes into an empty store: the same keys, parent ids, titles
\* and sequence numbers, in the same order, none twice.
C7_Resumable ==
    pc = "done"
    => /\ db.authors = ref.authors
       /\ db.books = ref.books
       /\ db.chapters = ref.chapters
       /\ UniqueBy(db.authors, "name")
       /\ UniqueBy(db.books, "original_link")
       /\ UniqueBy(db.chapters, "original_link")

\* The end of a run that followed a run stopped after it had stored a
\* chapter, and that stored further chapters itself.
C7_Witness ==
    /\ run = 2
    /\ ~prevEnded
    /\ pc = "done"
    /\ fatal = "none"
    /\ snap.chapters # <<>>
    /\ Len(db.chapters) > Len(snap.chapters)

\* C8: when the traversal of a book has returned, every sub-link of every
\* INDEX page met has been handed to the driller, failed loads or not: a
\* failed load ends the call that made it and nothing else.
C8_FailureIsBranchLocal ==
    pc \in {"authors", "books", "done"} => handed = promised

\* The traversal of a book has returned; a load of the driller failed and the
\* driller went on to load a later sibling.
C8_Witness ==
    /\ pc = "books"
    /\ \E i \in 1..Len(loads) : \E j \in 1..Len(loads) :
          /\ i < j
          /\ loads[i].by = "drill" /\ ~loads[i].ok
          /\ loads[j].by = "drill" /\ loads[j].ok
          /\ loads[j].url # loads[i].url
    /\ handed >= 2

\* C9: a run that could load the site root ends only after the loop over the
\* authors has gone through every author, whichever other loads fail.
C9_AuthorFailureIsLocal ==
    (pc = "done" /\ fatal # "root") => ai > Len(authors)

\* C10: whenever the traversal of a book is started, the visited set handed
\* to it holds no URL, whatever earlier books have visited; and once the
\* traversal of a book has returned, the first page it loaded, or tried to
\* load, was the root of that book.
C10_FreshVisitedPerBook ==
    /\ (pc = "drill" /\ Len(stack) = 1 /\ Top.k \in {"drill", "crawl"})
       => visited = {}
    /\ (pc = "books" /\ bi > 1 /\ ~InList(sidebarLinks, books[bi - 1].href))
       => (loads # <<>> /\ loads[1].url = books[bi - 1].href)

\* C11: on the source of Scenario A (one author, one book, four content pages
\* chained by next-links) a run that starts on an empty store ends with one
\* Author, one Book and four Chapters, the k-th being the k-th page of the
\* chain with sequence number k.
C11_ScenarioA ==
    (site = ScenarioA /\ pc = "done")
    => /\ Len(db.authors) = 1
       /\ Len(db.books) = 1
       /\ Len(db.chapters) = 4
       /\ \A k \in 1..4 :
             /\ db.chapters[k].original_link = ChainUrls[k]
             /\ db.chapters[k].sequence_number = k
             /\ db.chapters[k].book_id = 1

\* A run over Scenario A has ended without a fatal error, its four pages
\* loaded by the surfer.
C11_Witness ==
    /\ site = ScenarioA
    /\ pc = "done"
    /\ fatal = "none"
    /\ Len(loads) = 5
    /\ loads[5] = [by |-> "surf", url |-> "p4", ok |-> TRUE]

\* The loads of drillRecursive for the sub-links of the book's root: its
\* loads in the current book after the load of the root itself.
IsDrillLoad(l) == l.by = "drill"
ChildLoads == Tail(SelectSeq(loads, IsDrillLoad))

C13_SurferSequence ==
    (pc = "drill" /\ stack # <<>>)
    => /\ Top.k = "save" => Top.sequence = Cardinality(Top.sessionVisited)
       /\ Top.k = "surf" => Top.sequence = Cardinality(Top.sessionVisited) + 1

\* The surfer is persisting the third page of its run.
C13_Witness ==
    /\ pc = "drill"
    /\ stack # <<>>
    /\ Top.k = "save"
    /\ Top.sequence = 3
    /\ Len(db.chapters) = 3
    /\ db.chapters[3].sequence_number = 3

\* The chapter with the id chapterId has a Segment row of the text seg.
StoredFor(chapterId, seg) ==
    \E k \in 1..Len(db.segments) :
        db.segments[k].chapter_id = chapterId /\ db.segments[k].hebrew_text = seg

\* C14: when a run has ended, of the segments that analyzePage gave for the
\* page of a chapter, "12", "*" and every segment of prose are Segment rows
\* of the chapter, and a segment without Hebrew that is not a footnote marker
\* (punctuation only) is not.
C14_SegmentFiltering ==
    (pc = "done" /\ fatal = "none")
    => \A c \in 1..Len(db.chapters) :
         \A seg \in Range(CleanedSegments(Page(db.chapters[c].original_link))) :
            /\ seg = <<R("dig", 2)>> => StoredFor(c, seg)
            /\ seg = <<R("dig", 1)>> => StoredFor(c, seg)
            /\ (HasHebrew(seg) /\ TextLength(seg) >= 2) => StoredFor(c, seg)
            /\ (~HasHebrew(seg) /\ ~IsFootnoteMarker(seg)) => ~StoredFor(c, seg)

\* C15: every Segment row of the store has a text of at least two characters
\* that has a Hebrew character or is made of footnote-marker characters only.
C15_SegmentAdmission ==
    \A k \in 1..Len(db.segments) :
        /\ TextLength(db.segments[k].hebrew_text) >= 2
        /\ HasHebrew(db.segments[k].hebrew_text)
           \/ IsFootnoteMarker(db.segments[k].hebrew_text)

\* A run has ended on a page whose block has, after its prose, a line of
\* punctuation and the line "*": neither is a Segment row, the prose is.
C15_Witness ==
    /\ pc = "done"
    /\ site.blocks = <<Block(<<R("heb", 120), R("nl", 1), R("oth", 3), R("nl", 1),
                               R("dig", 1)>>, 0)>>
    /\ Len(db.segments) = 1

\* Some candidate element of the page has more than 100 Hebrew characters
\* and either no link or more than 50 Hebrew characters per link.
HasContentBlock(page) ==
    \E k \in DOMAIN page.cands :
        /\ HebrewCount(page.cands[k].txt) > 100
        /\ \/ page.cands[k].links = 0
           \/ HebrewCount(page.cands[k].txt) > 50 * page.cands[k].links

C17_DepthCap ==
    [][(pc = "drill" /\ Top.k \in {"drill", "crawl"} /\ Len(stack) > LF_MaxDepth)
       => (loads' = loads /\ db' = db /\ stack' = Pop(stack))]_vars

\* C18: no step changes or removes a row: after every step each table begins
\* with the rows it had before, unchanged, also when a get-or-create call
\* names an existing key with another title, sequence number or parent.
C18_AppendOnly ==
    [][\A t \in {"authors", "books", "chapters", "segments"} :
          /\ Len(db'[t]) >= Len(db[t])
          /\ SubSeq(db'[t], 1, Len(db[t])) = db[t]]_vars

\* getOrInsertChapter has returned a chapter stored under another book with
\* another title than the ones it was called with.
C18_Witness ==
    /\ pc = "drill"
    /\ Top.k = "save"
    /\ db.chapters[Top.chapId].book_id # bookId
    /\ db.chapters[Top.chapId].title # PartTitle(Top.baseTitle, Top.sequence)

\* C19: in every state of the store no two Author rows, no two Book rows and
\* no two Chapter rows have the same URL, whatever names the links of the
\* root page show.
C19_OneRowPerUrl ==
    /\ UniqueBy(db.authors, "original_link")
    /\ UniqueBy(db.books, "original_link")
    /\ UniqueBy(db.chapters, "original_link")

\* C20: in every state each Book row carries the id of an existing Author
\* row, each Chapter row the id of an existing Book row and each Segment row
\* the id of an existing Chapter row (an id is a position in its table, so
\* an id in range names exactly one row).
C20_ReferentialIntegrity ==
    /\ \A k \in 1..Len(db.books) : db.books[k].author_id \in 1..Len(db.authors)
    /\ \A k \in 1..Len(db.chapters) : db.chapters[k].book_id \in 1..Len(db.books)
    /\ \A k \in 1..Len(db.segments) :
          db.segments[k].chapter_id \in 1..Len(db.chapters)

\* The surfer has stored segments under a chapter of a second book.
C20_Witness ==
    /\ Len(db.books) >= 2
    /\ \E k \in 1..Len(db.segments) :
          db.chapters[db.segments[k].chapter_id].book_id = 2

C23_DecisionOrder ==
    \A a \in analyses :
        LET page == Page(a.url)
            segments == CleanedSegments(page)
            subLinks == SubLinks(page.anchors, a.url, a.excludeUrls)
        IN a.result.type = (IF Len(segments) > 0 THEN "CONTENT"
                            ELSE IF Len(subLinks) > 0 THEN "INDEX" ELSE "EMPTY")

\* A page that has both segments and a sub-link has been classified CONTENT.
C23_Witness ==
    \E a \in analyses :
        /\ a.result.type = "CONTENT"
        /\ Len(SubLinks(Page(a.url).anchors, a.url, a.excludeUrls)) > 0

\* The qualifying elements of a page that have the largest Hebrew count.
QualifyingMax(page) ==
    {i \in 1..Len(page.cands) :
        /\ Qualifies(page.cands[i])
        /\ \A j \in 1..Len(page.cands) :
              Qualifies(page.cands[j])
                 => HebrewCount(page.cands[j].txt) <= HebrewCount(page.cands[i].txt)}

SetMax(S) == CHOOSE x \in S : \A y \in S : y <= x
SetMin(S) == CHOOSE x \in S : \A y \in S : x <= y

\* The lines the classifier returns when it selects the element el.
SegmentsOf(el) == CleanLines(StripArtifact(el.txt))

\* C24 as stated: the segments of a CONTENT page are those of the last, in
\* document order, of its qualifying elements of the largest Hebrew count.
C24_TieLastWins ==
    \A a \in analyses :
        a.result.type = "CONTENT"
           => LET page == Page(a.url)
              IN /\ QualifyingMax(page) # {}
                 /\ a.result.segments = SegmentsOf(page.cands[SetMax(QualifyingMax(page))])

\* C24 as amended: they are those of the first, in document order, of its
\* qualifying elements of the largest Hebrew count.
C24_TieFirstWins ==
    \A a \in analyses :
        a.result.type = "CONTENT"
           => LET page == Page(a.url)
              IN /\ QualifyingMax(page) # {}
                 /\ a.result.segments = SegmentsOf(page.cands[SetMin(QualifyingMax(page))])

\* A page with two qualifying elements of the same largest count and
\* different lines has been classified CONTENT.
C24_Witness ==
    \E a \in analyses :
        /\ a.result.type = "CONTENT"
        /\ \E i, j \in QualifyingMax(Page(a.url)) :
              SegmentsOf(Page(a.url).cands[i]) # SegmentsOf(Page(a.url).cands[j])

\* The hyperlinks of a page whose text has a next marker and no previous
\* marker, by their place in the document.
NextPlaces(page) ==
    {i \in 1..Len(page.anchors) :
        /\ {">>", "haba"} \cap page.anchors[i].text.has # {}
        /\ {"<<", "hakodem"} \cap page.anchors[i].text.has = {}}

\* C25: the next-URL of a CONTENT result is the href of the first hyperlink
\* of the page whose text has a next marker and no previous marker, and
\* there is none when no hyperlink is of that kind; so a link whose text has
\* both markers is never the one chosen.
C25_PaginationLink ==
    \A a \in analyses :
        a.result.type = "CONTENT"
           => LET page == Page(a.url)
              IN a.result.nextUrl =
                    (IF NextPlaces(page) = {} THEN Null
                     ELSE page.anchors[SetMin(NextPlaces(page))].href)

\* A CONTENT page has been classified whose first hyperlink carries both
\* markers and leads elsewhere than the next-URL returned.
C25_Witness ==
    \E a \in analyses :
        /\ a.result.type = "CONTENT"
        /\ a.result.nextUrl # Null
        /\ {"<<", ">>"} \subseteq Page(a.url).anchors[1].text.has
        /\ Page(a.url).anchors[1].href # a.result.nextUrl

NavPhrases == {"daf habayit", "hakodem", "haba", "<<", ">>"}

\* C26: no sub-link of an INDEX result leads to the page itself or to a URL
\* of the exclusion list, has an empty text or a text with a navigation
\* phrase; so the hyperlink that is the page's pagination link is not among
\* them, and no call of the driller made from a page is for that page or for
\* an excluded URL.
C26_SubLinkFilter ==
    /\ \A a \in analyses :
          a.result.type = "INDEX"
             => /\ \A k \in 1..Len(a.result.links) :
                      LET l == a.result.links[k]
                      IN /\ l.href # a.url
                         /\ ~InList(a.excludeUrls, l.href)
                         /\ l.text.len > 0
                         /\ l.text.has \cap NavPhrases = {}
                /\ \A i \in NextPlaces(Page(a.url)) :
                      Page(a.url).anchors[i] \notin Range(a.result.links)
    /\ \A k \in 1..(Len(stack) - 1) :
          (stack[k].k = "loop" /\ stack[k + 1].k = "drill")
             => /\ stack[k + 1].url # stack[k].url
                /\ ~InList(sidebarLinks, stack[k + 1].url)
                /\ \E i \in 1..Len(stack[k].links) :
                      /\ stack[k].links[i].href = stack[k + 1].url
                      /\ stack[k].links[i].text.has \cap NavPhrases = {}

\* The driller has descended from an INDEX page that has a link to itself, a
\* link to an excluded URL, a link without text and a next-link.
C26_Witness ==
    /\ Len(stack) >= 2
    /\ stack[1].k = "loop"
    /\ stack[2].k = "drill"
    /\ LET anchors == Page(stack[1].url).anchors
       IN /\ \E i \in 1..Len(anchors) : anchors[i].href = stack[1].url
          /\ \E i \in 1..Len(anchors) :
                InList(sidebarLinks, anchors[i].href) /\ anchors[i].text.has = {}
          /\ \E i \in 1..Len(anchors) : anchors[i].text.len = 0
          /\ NextPlaces(Page(stack[1].url)) # {}

\* C27 as stated: a page none of whose candidate elements meets the content
\* thresholds is classified EMPTY.
C27_AmbiguityIsEmpty ==
    \A a \in analyses :
        ~HasContentBlock(Page(a.url)) => a.result.type = "EMPTY"

\* C27 as amended: such a page is classified without an error, never as
\* CONTENT: as INDEX when it has sub-links and as EMPTY when it has none.
C27_AmbiguityIsNotContent ==
    \A a \in analyses :
        ~HasContentBlock(Page(a.url))
           => a.result.type =
                 (IF Len(SubLinks(Page(a.url).anchors, a.url, a.excludeUrls)) > 0
                  THEN "INDEX" ELSE "EMPTY")

\* Two pages whose elements carry Hebrew text below the thresholds have been
\* classified, one as INDEX and one as EMPTY.
C27_Witness ==
    \E a, b \in analyses :
        /\ ~HasContentBlock(Page(a.url)) /\ a.result.type = "INDEX"
        /\ ~HasContentBlock(Page(b.url)) /\ b.result.type = "EMPTY"
        /\ HebrewCount(Page(b.url).cands[1].txt) >= 100

\* C28: when the surfer has loaded a CONTENT page that it had not visited,
\* with its sequence number above 5 and the page's title a front-matter
\* title, it returns without writing to the store and without going on to
\* another page; with a sequence number of 5 or less, or another title, it
\* creates the chapter and goes on to store the segments.
C28_ResetLoopGuard ==
    [][(/\ pc = "drill"
        /\ Top.k = "surf"
        /\ ~SurfSeen(Top.currentUrl, visited, Top.sessionVisited)
        /\ ~Throws(Top.currentUrl)
        /\ HasContentBlock(Page(Top.currentUrl)))
       => IF Top.sequence > 5 /\ site.shape[Top.currentUrl].front
          THEN db' = db /\ stack' = Pop(stack)
          ELSE /\ Len(stack') = Len(stack)
               /\ stack'[Len(stack')].k = "save"
               /\ \E k \in 1..Len(db'.chapters) :
                     db'.chapters[k].original_link = Top.currentUrl]_vars

\* The surfer has stored five pages, then a sixth page of a front-matter
\* title was loaded and the surfer returned without a chapter for it.
C28_Witness ==
    /\ Len(loads) >= 6
    /\ loads[Len(loads)].by = "surf"
    /\ loads[Len(loads)].ok
    /\ site.shape[loads[Len(loads)].url].front
    /\ Len(db.chapters) = 5
    /\ \A k \in 1..Len(db.chapters) : db.chapters[k].original_link # loads[Len(loads)].url
    /\ pc = "books"

\* C29: a step adds a Chapter row only if it is a step of the surfer on a
\* URL that is in neither visited set, whose load succeeds and which that
\* step classifies CONTENT (its cleaned segment list is not empty), and the
\* row is for that URL; Segment rows are added only by the surfer's storing
\* of that page's segments, under that chapter. The steps of the driller,
\* and the surfer's steps on a page that fails to load or is not CONTENT,
\* leave both tables as they are.
C29_ChapterOnlyBySurferOnContent ==
    [][/\ db'.chapters # db.chapters
          => /\ pc = "drill" /\ Top.k = "surf"
             /\ Top.currentUrl \notin visited
             /\ Top.currentUrl \notin Top.sessionVisited
             /\ ~Throws(Top.currentUrl)
             /\ Len(CleanedSegments(Page(Top.currentUrl))) > 0
             /\ \E a \in analyses' :
                   /\ a.by = "surf" /\ a.url = Top.currentUrl
                   /\ a.result.type = "CONTENT"
             /\ Len(db'.chapters) = Len(db.chapters) + 1
             /\ db'.chapters[Len(db'.chapters)].original_link = Top.currentUrl
       /\ db'.segments # db.segments
          => /\ pc = "drill" /\ Top.k = "save"
             /\ db.chapters[Top.chapId].original_link = Top.currentUrl
             /\ \A k \in (Len(db.segments) + 1)..Len(db'.segments) :
                   db'.segments[k].chapter_id = Top.chapId
       /\ (pc = "drill" /\ Top.k \in {"drill", "loop"})
          => db'.chapters = db.chapters /\ db'.segments = db.segments
       /\ (/\ pc = "drill" /\ Top.k = "surf"
           /\ \/ Throws(Top.currentUrl)
              \/ Len(CleanedSegments(Page(Top.currentUrl))) = 0)
          => db'.chapters = db.chapters /\ db'.segments = db.segments]_vars

\* The surfer has just created the first Chapter row of a book, two levels
\* down, after the driller classified a page INDEX and another page failed
\* to load.
C29_Witness ==
    /\ pc = "drill"
    /\ Top.k = "save"
    /\ Len(stack) >= 2
    /\ Len(db.chapters) = 1
    /\ db.segments = <<>>
    /\ \E k \in 1..Len(loads) : ~loads[k].ok
    /\ \E a \in analyses : a.by = "drill" /\ a.result.type = "INDEX"

\* C30: a call of the driller on an unvisited page that loads and has
\* cleaned segments becomes one call of the surfer at that page's URL, with
\* sequence number 1, and hands none of the page's sub-links to the driller;
\* when a surfer returns, the call that made it is gone with it and control
\* is back in the loop of the parent INDEX page, left as it was (or in
\* runScraper, for the root of a book); and no page that the driller
\* classified CONTENT has a loop over its sub-links.
C30_ContentHandsOffOnce ==
    /\ [][(/\ pc = "drill" /\ Top.k = "drill"
           /\ ~DrillSeen(Top.url, visited)
           /\ ~Throws(Top.url)
           /\ Len(CleanedSegments(Page(Top.url))) > 0)
          => /\ Len(stack') = Len(stack)
             /\ Pop(stack') = Pop(stack)
             /\ stack'[Len(stack')].k = "surf"
             /\ stack'[Len(stack')].currentUrl = Top.url
             /\ stack'[Len(stack')].sequence = 1
             /\ handed' = handed
             /\ promised' = promised]_vars
    /\ [][(pc = "drill" /\ Top.k \in {"surf", "save"} /\ Len(stack') # Len(stack))
          => /\ stack' = Pop(stack)
             /\ stack' # <<>> => stack'[Len(stack')].k = "loop"
             /\ handed' = handed]_vars
    /\ [](\A k \in 1..Len(stack) :
             stack[k].k = "loop"
                => ~\E a \in analyses :
                      /\ a.by = "drill" /\ a.run = run /\ a.url = stack[k].url
                      /\ a.result.type = "CONTENT")

\* The surfer started at the first sub-link of an INDEX page, a CONTENT page
\* with sub-links of its own, has returned: the loop of the INDEX page is at
\* its second link, and only the INDEX page and that page were loaded.
C30_Witness ==
    /\ pc = "drill"
    /\ Top.k = "loop"
    /\ Top.i = 2
    /\ handed = 1
    /\ Len(loads) = 3
    /\ \E a \in analyses :
          /\ a.by = "drill" /\ a.url = Top.links[1].href
          /\ a.result.type = "CONTENT"
          /\ Len(SubLinks(Page(a.url).anchors, a.url, a.excludeUrls)) > 0

\* The URLs the root page links to (inside the library), and the root.
ExclusionSet ==
    ({Page(BASE_URL).anchors[k].href : k \in 1..Len(Page(BASE_URL).anchors)} \ {"ext"})
       \cup {BASE_URL}

\* C31: once the root has been read, sidebarLinks holds the URLs the root
\* links to and the root URL, and no later step of the run changes it; no
\* Book row is for one of these URLs; and no call of the driller is for one
\* of them.
C31_PermanentExclusionSet ==
    /\ [](pc \in {"authors", "books", "drill"} => Range(sidebarLinks) = ExclusionSet)
    /\ [][pc # "start" => sidebarLinks' = sidebarLinks]_vars
    /\ [](\A k \in 1..Len(db.books) : db.books[k].original_link \notin ExclusionSet)
    /\ [](\A k \in 1..Len(stack) :
             stack[k].k \in {"drill", "loop"} => stack[k].url \notin Range(sidebarLinks))

\* The driller walks the links of a page that links to the author's page, in
\* a book whose author's page links back to the root.
C31_Witness ==
    /\ pc = "drill"
    /\ Top.k = "loop"
    /\ Top.i > 1
    /\ \E k \in 1..Len(Page(Top.url).anchors) :
          /\ Page(Top.url).anchors[k].href = "a1"
          /\ Page(Top.url).anchors[k].text.has = {}
    /\ \E k \in 1..Len(Page("a1").anchors) : Page("a1").anchors[k].href = BASE_URL
    /\ Len(db.books) = 1

\* The runs of a text before its first arrow marker.
RECURSIVE BeforeFirstArrow(_)
BeforeFirstArrow(txt) ==
    IF txt = <<>> \/ Head(txt).c = "arr" THEN <<>>
    ELSE <<Head(txt)>> \o BeforeFirstArrow(Tail(txt))

\* The non-empty lines, trimmed, that end before the first arrow marker of a
\* text that has one.
LinesBeforeArrow(txt) ==
    IF AfterFirstArrow(txt) = Null THEN {}
    ELSE LET ls == SplitLines(BeforeFirstArrow(txt), <<>>)
         IN {Trim(ls[k]) : k \in 1..(Len(ls) - 1)} \ {<<>>}

\* C32: the cleaned segment list of a page keeps every non-empty line of
\* the selected block that comes before the block's first arrow marker.
C32_LinesBeforeArrowKept ==
    \A a \in analyses :
        LET page == Page(a.url)
            best == BestTextEl(page)
        IN best # 0
              => \A line \in LinesBeforeArrow(page.cands[best].txt) :
                    /\ a.result.type = "CONTENT"
                    /\ line \in Range(a.result.segments)

\* A segment that insertSegments admits: two characters or more, with a
\* Hebrew character or made of footnote characters only.
Admitted(seg) ==
    /\ TextLength(seg) >= 2
    /\ \/ \E k \in 1..Len(seg) : seg[k].c \in {"heb", "niq"}
       \/ \A k \in 1..Len(seg) : seg[k].c = "dig"

\* C33: the rows one call of insertSegments adds are the admitted segments of
\* its list in the order of the list, numbered 1, 2, .. k without a gap, and
\* k is the count the call returns.
C33_SegmentNumbering ==
    [][(pc = "drill" /\ Top.k = "save")
       => LET admitted == SelectSeq(Top.segments, Admitted)
              k == Len(admitted)
          IN /\ Len(db'.segments) = Len(db.segments) + k
             /\ \A j \in 1..k :
                   /\ db'.segments[Len(db.segments) + j].sequence_number = j
                   /\ db'.segments[Len(db.segments) + j].hebrew_text = admitted[j]
                   /\ db'.segments[Len(db.segments) + j].chapter_id = Top.chapId
             /\ insertSegments(db, Top.chapId, Top.segments).count = k]_vars

\* The segments of a page of three lines, the second one punctuation, have
\* been stored as two rows.
C33_Witness ==
    /\ site.blocks = <<Block(<<R("heb", 120), R("nl", 1), R("oth", 3), R("nl", 1),
                               R("heb", 120)>>, 0)>>
    /\ Len(db.segments) = 2
    /\ db.segments[2].sequence_number = 2

\* C34: during the traversal of one book the surfer takes no URL twice
\* through its load, so getOrInsertChapter and insertSegments, which run
\* only after such a load, run at most once for a URL: the surfer's loads of
\* the book are for distinct URLs, every chapter step is the step that made
\* the load for its URL, and every store of segments follows that load.
C34_OncePerUrlPerBook ==
    /\ [](\A i, j \in 1..Len(loads) :
             (loads[i].by = "surf" /\ loads[j].by = "surf" /\ loads[i].url = loads[j].url)
                => i = j)
    /\ [][(pc = "drill" /\ Top.k = "surf" /\ db'.chapters # db.chapters)
          => /\ \A i \in 1..Len(loads) :
                   ~(loads[i].by = "surf" /\ loads[i].url = Top.currentUrl)
             /\ loads' = Append(loads, [by |-> "surf", url |-> Top.currentUrl, ok |-> TRUE])]_vars
    /\ [](  (pc = "drill" /\ Top.k = "save")
          => /\ loads[Len(loads)] = [by |-> "surf", url |-> Top.currentUrl, ok |-> TRUE]
             /\ Top.currentUrl \in visited)

\* A surfer on its second page or later has come to a URL that another
\* surfer of the same book has stored.
C34_Witness ==
    /\ pc = "drill"
    /\ Top.k = "surf"
    /\ Top.sequence > 1
    /\ Top.currentUrl \notin Top.sessionVisited
    /\ \E i \in 1..Len(loads) :
          loads[i] = [by |-> "surf", url |-> Top.currentUrl, ok |-> TRUE]
    /\ \E k \in 1..Len(db.chapters) : db.chapters[k].original_link = Top.currentUrl

\* C35: in the first run, on a store that was empty, no chapter gets two
\* batches of Segment rows: no two rows of one chapter are both numbered 1,
\* the number every batch starts from.
C35_OneBatchPerChapter ==
    run = 1
       => \A i, j \in 1..Len(db.segments) :
             (/\ db.segments[i].chapter_id = db.segments[j].chapter_id
              /\ db.segments[i].sequence_number = 1
              /\ db.segments[j].sequence_number = 1)
             => i = j

\* C36: a page that the driller has classified CONTENT is either about to be
\* taken by the surfer it was handed to (the surfer's first step, the URL not
\* visited yet), or the surfer has classified it CONTENT too, with its empty
\* exclusion list, and a Chapter row of its URL exists; so the row exists
\* when control is back in the driller.
C36_HandOffAgreement ==
    \A a \in analyses :
        (a.by = "drill" /\ a.result.type = "CONTENT")
           => \/ /\ pc = "drill"
                 /\ Top.k = "surf"
                 /\ Top.currentUrl = a.url
                 /\ Top.sequence = 1
                 /\ a.url \notin visited
              \/ /\ \E b \in analyses :
                       b.by = "surf" /\ b.url = a.url /\ b.result.type = "CONTENT"
                 /\ \E k \in 1..Len(db.chapters) : db.chapters[k].original_link = a.url

\* Control is back in runScraper after the hand-off of a page whose
\* sub-links differ between the driller's exclusion list and the surfer's
\* empty one.
C36_Witness ==
    /\ pc = "books"
    /\ \E a \in analyses :
          /\ a.by = "drill" /\ a.result.type = "CONTENT"
          /\ SubLinks(Page(a.url).anchors, a.url, a.excludeUrls)
                # SubLinks(Page(a.url).anchors, a.url, <<>>)
          /\ \E k \in 1..Len(db.chapters) : db.chapters[k].original_link = a.url

\* C37: a surfer step that loads a URL and stops there (the load fails, the
\* page is not CONTENT, or the reset-loop guard fires) leaves the URL in the
\* book's visited set; the set does not shrink while the book is traversed;
\* a call of the driller for a URL of the set returns without a load; so no
\* URL that a surfer has loaded is loaded by the driller later in the book.
C37_SurferStopMarksVisited ==
    /\ [][(/\ pc = "drill" /\ Top.k = "surf"
           /\ Len(loads') > Len(loads)
           /\ Len(stack') < Len(stack))
          => /\ Top.currentUrl \in visited'
             /\ db' = db]_vars
    /\ [][pc = "drill" => visited \subseteq visited']_vars
    /\ [][(pc = "drill" /\ Top.k = "drill" /\ Top.url \in visited)
          => (loads' = loads /\ stack' = Pop(stack))]_vars
    /\ [](\A i, j \in 1..Len(loads) :
             (i < j /\ loads[i].by = "surf" /\ loads[i].url = loads[j].url)
                => loads[j].by # "drill")

\* The driller is called for an INDEX page that a surfer reached through a
\* next-link and stopped at.
C37_Witness ==
    /\ pc = "drill"
    /\ Top.k = "drill"
    /\ Top.url \in visited
    /\ \E a \in analyses : a.by = "surf" /\ a.url = Top.url /\ a.result.type = "INDEX"
    /\ \A i \in 1..Len(loads) : loads[i].url = Top.url => loads[i].by = "surf"

\* The driller has failed to load url earlier in the book.
FailedInDriller(url) ==
    \E i \in 1..Len(loads) : loads[i] = [by |-> "drill", url |-> url, ok |-> FALSE]

\* A surfer has marked url (and tried to load it) earlier in the book.
ReachedBySurfer(url) ==
    \E i \in 1..Len(loads) : loads[i].by = "surf" /\ loads[i].url = url

\* The step is a call of the driller whose load throws.
DrillerThrows ==
    /\ pc = "drill" /\ Top.k = "drill"
    /\ Len(loads') = Len(loads) + 1
    /\ loads'[Len(loads')] = [by |-> "drill", url |-> Top.url, ok |-> FALSE]

\* The step is a call of the driller that loads its URL.
DrillerLoads ==
    /\ Len(loads') = Len(loads) + 1
    /\ loads'[Len(loads')].by = "drill"
    /\ loads'[Len(loads')].url = Top.url

\* Within a book the visited set grows only by the URL of a surfer's turn or
\* by the URL the driller has loaded and found to be INDEX or EMPTY.
OnlyVerdictsAndSurferAdd ==
    (pc = "drill" /\ pc' = "drill" /\ visited' # visited)
    => \/ Top.k = "surf" /\ visited' = visited \cup {Top.currentUrl}
       \/ /\ Top.k = "drill" /\ visited' = visited \cup {Top.url}
          /\ loads' = Append(loads, [by |-> "drill", url |-> Top.url, ok |-> TRUE])
          /\ \E a \in analyses' :
                a.by = "drill" /\ a.url = Top.url /\ a.result.type \in {"INDEX", "EMPTY"}

\* C38 (as stated): a call of the driller whose load throws leaves the
\* visited set as it was, and every later call of the driller for that URL
\* in the same book loads it again.
C38_FailedUrlAlwaysRefetched ==
    [][/\ DrillerThrows => (visited' = visited /\ Top.url \notin visited')
       /\ OnlyVerdictsAndSurferAdd
       /\ (pc = "drill" /\ Top.k = "drill" /\ FailedInDriller(Top.url))
          => DrillerLoads]_vars

\* C38 (amended): a call of the driller whose load throws leaves the visited
\* set as it was; the set grows only by INDEX and EMPTY verdicts and by
\* surfer turns; a later call of the driller for that URL in the same book
\* loads it again, unless a surfer has reached the URL in between, in which
\* case the call returns without a load.
C38_FailedUrlRefetchedUnlessSurfed ==
    [][/\ DrillerThrows => (visited' = visited /\ Top.url \notin visited')
       /\ OnlyVerdictsAndSurferAdd
       /\ (pc = "drill" /\ Top.k = "drill" /\ FailedInDriller(Top.url))
          => IF ReachedBySurfer(Top.url) THEN loads' = loads /\ stack' = Pop(stack)
             ELSE DrillerLoads]_vars

\* The driller has failed twice to load p2: once as a sub-link of the book's
\* root and once more as the sub-link of the INDEX page p4.
C38_Witness ==
    /\ site \in RetrySites
    /\ Len(loads) >= 2
    /\ loads[Len(loads)] = [by |-> "drill", url |-> "p2", ok |-> FALSE]
    /\ \E i \in 1..(Len(loads) - 1) : loads[i] = [by |-> "drill", url |-> "p2", ok |-> FALSE]
    /\ "p4" \in visited
    /\ "p2" \notin visited

\* The frame of a surfer run, at the head of its loop or inside a turn.
IsSurferFrame(f) == f.k \in {"surf", "save"}

\* C39: the session set of every surfer run is a subset of the book's
\* visited set; while the run lasts neither set loses an element and a URL
\* enters the session set only on a step after which it is in both; so a
\* surfer standing at a URL of its session set stands at a URL of the
\* visited set, and a surfer that stops at the cycle protections is stopped
\* by the first of them.
C39_SessionWithinGlobal ==
    /\ [](\A k \in 1..Len(stack) :
             IsSurferFrame(stack[k]) => stack[k].sessionVisited \subseteq visited)
    /\ [][(/\ pc = "drill" /\ pc' = "drill"
           /\ IsSurferFrame(Top) /\ Len(stack') = Len(stack))
          => /\ Top.sessionVisited \subseteq stack'[Len(stack')].sessionVisited
             /\ visited \subseteq visited'
             /\ stack'[Len(stack')].sessionVisited \ Top.sessionVisited
                   \subseteq visited' \ visited]_vars
    /\ [][(/\ pc = "drill" /\ Top.k = "surf"
           /\ Len(stack') < Len(stack) /\ loads' = loads)
          => Top.currentUrl \in visited]_vars

\* A surfer's next-link has led it back to a page of its own run: the
\* session test would fire.
C39_Witness ==
    /\ pc = "drill"
    /\ Top.k = "surf"
    /\ Top.sessionVisited # {}
    /\ Top.currentUrl \in Top.sessionVisited

====
